---- MODULE Spec2Model ----
(***************************************************************************)
(* State-machine model of the squeeze scanner (src/api/index.py).          *)
(*                                                                         *)
(* One process serves scan requests.  The HTTP server constructs a fresh   *)
(* `handler` object for every request (handler.__init__ runs, then the     *)
(* request is dispatched to handle_optimized_scan), so everything stored   *)
(* on `self` lives exactly as long as one request.                         *)
(*                                                                         *)
(* Numbers.  Python floats are modelled by exact decimal arithmetic:       *)
(*   - short-interest metrics and price changes are integers in            *)
(*     thousandths (22.4 is 22400);                                        *)
(*   - score components are integers in millionths;                        *)
(*   - times are rationals <<num, den>> in seconds (2.5 is <<5, 2>>).      *)
(***************************************************************************)
EXTENDS Integers, Sequences, FiniteSets, TLC

VARIABLES
    hash_salt,          \* PYTHONHASHSEED of this process: fixes str hashes
    served,             \* number of requests accepted so far
    last_written,       \* history: last value stored by line 384, or None
    pc,                 \* position of the request being handled
    request,            \* decoded request body and the outside world it meets
    performance_stats,  \* self.performance_stats of the current handler
    scan_lock,          \* self.scan_lock: "none" (no handler), "free" or "held"
    optimization,       \* handle_optimized_scan's `optimization`
    plan_avg,           \* avg_ticker_time as read by the planner (line 62)
    scan_optimization,  \* perform_optimized_scan's `scan_optimization`
    scan_tickers,       \* perform_optimized_scan's `scan_tickers`
    fut,                \* state of each submitted future, by position
    collected,          \* price_data inside the feed, in insertion order
    reorders,           \* history: completions that overtook an older fetch
    timed_out,          \* as_completed raised TimeoutError
    raised,             \* the exception raised inside the try of line 417, or None
    price_requests,     \* history: price requests sent, by position
    price_data,         \* mapping returned by the price feed
    successful_tickers, \* perform_optimized_scan's `successful_tickers`
    ortex_world,        \* how the short-interest provider answers this scan
    ortex_next,         \* loop index of line 335
    ortex_log,          \* history: provider requests sent, in order
    ortex_returned,     \* history: what get_fast_ortex_data returned, by ticker
    ortex_data,         \* perform_optimized_scan's `ortex_data`
    results,            \* perform_optimized_scan's `results`
    squeeze_metrics,    \* line 357: `squeeze_metrics` of each scored ticker
    total_time,         \* perform_optimized_scan's `total_time` (seconds)
    response            \* the HTTP response written, or None

vars == <<hash_salt, served, last_written, pc, request, performance_stats,
          scan_lock, optimization, plan_avg, scan_optimization, scan_tickers,
          fut, collected, reorders, timed_out, raised, price_requests,
          price_data, successful_tickers, ortex_world, ortex_next, ortex_log,
          ortex_returned, ortex_data, results, squeeze_metrics, total_time,
          response>>

(***************************************************************************)
(* Bounds of the model.                                                    *)
(***************************************************************************)
\* requests one process serves
MaxScans == 2
\* running fetches, submitted earlier, that a completing fetch may overtake
MaxOvertaken == 1
\* completions of one feed call that overtake an older running fetch
MaxReorders == 1
\* largest PYTHONHASHSEED considered (seeds 0..MaxSalt)
MaxSalt == 1

\* Python's None; an optional value is <<>> (None) or <<v>>
None == <<>>
Some(v) == <<v>>
IsNone(o) == o = <<>>
Val(o) == o[1]

(***************************************************************************)
(* Small helpers.                                                          *)
(***************************************************************************)
Min2(a, b) == IF a <= b THEN a ELSE b
Max2(a, b) == IF a >= b THEN a ELSE b
Range(s) == {s[i] : i \in 1..Len(s)}
Contains(s, x) == \E i \in 1..Len(s) : s[i] = x
\* a dict with no keys
EmptyMap == [k \in {} |-> 0]

\* s[:n] of Python, negative n included
PySliceTo(s, n) ==
    LET stop == IF n >= 0 THEN Min2(n, Len(s)) ELSE Max2(Len(s) + n, 0)
    IN  SubSeq(s, 1, stop)

RECURSIVE Concat(_)
Concat(ss) == IF ss = <<>> THEN <<>> ELSE Head(ss) \o Concat(Tail(ss))

\* [x for x in s if not (x in seen or seen.add(x))]
RECURSIVE Dedup(_, _)
Dedup(s, seen) ==
    IF s = <<>> THEN <<>>
    ELSE IF Head(s) \in seen THEN Dedup(Tail(s), seen)
         ELSE <<Head(s)>> \o Dedup(Tail(s), seen \cup {Head(s)})

Reverse(s) == [i \in 1..Len(s) |-> s[Len(s) + 1 - i]]
Rotate(s, k) == [i \in 1..Len(s) |-> s[((i - 1 + k) % Len(s)) + 1]]

(***************************************************************************)
(* handler.__init__: the ticker universe and the performance statistics.   *)
(***************************************************************************)
CategoryOrder ==
    <<"top_meme_stocks", "high_short_interest", "biotech_squeeze",
      "small_cap_movers", "large_cap_samples">>

ticker_universe ==
    [c \in Range(CategoryOrder) |->
        CASE c = "top_meme_stocks" ->
               <<"GME", "AMC", "BBBY", "SAVA", "VXRT", "CLOV", "SPRT", "IRNT",
                 "DWAC", "PHUN", "PROG", "ATER", "BBIG", "MULN", "EXPR", "KOSS">>
          [] c = "high_short_interest" ->
               <<"BYND", "PTON", "ROKU", "UPST", "AFRM", "HOOD", "COIN", "RIVN",
                 "LCID", "NKLA", "PLUG", "BLNK", "QS", "GOEV", "RIDE", "WKHS">>
          [] c = "biotech_squeeze" ->
               <<"BIIB", "GILD", "REGN", "BMRN", "ALNY", "SRPT", "IONS", "ARWR",
                 "EDIT", "CRSP", "NTLA", "BEAM", "BLUE", "FOLD", "RARE", "KRYS">>
          [] c = "small_cap_movers" ->
               <<"SPCE", "DKNG", "PENN", "FUBO", "WISH", "RBLX", "PLTR", "SNOW",
                 "CRWD", "OKTA", "DDOG", "NET", "FSLY", "ESTC", "ZM", "DOCN">>
          [] OTHER ->
               <<"AAPL", "TSLA", "META", "NFLX", "NVDA", "GOOGL", "AMZN", "MSFT">>]

master_ticker_list ==
    Dedup(Concat([i \in 1..Len(CategoryOrder) |-> ticker_universe[CategoryOrder[i]]]), {})

\* position of a ticker in the master list (0 when it is not there)
MasterIndex(t) ==
    IF Contains(master_ticker_list, t)
    THEN CHOOSE i \in 1..Len(master_ticker_list) : master_ticker_list[i] = t
    ELSE 0

DefaultAvgTickerTime == <<5, 2>>
DefaultMaxSafeBatchSize == 20
DefaultTimeoutThreshold == 45

InitialPerformanceStats ==
    [avg_ticker_time |-> DefaultAvgTickerTime,
     max_safe_batch_size |-> DefaultMaxSafeBatchSize,
     timeout_threshold |-> DefaultTimeoutThreshold]

(***************************************************************************)
(* calculate_optimal_scan_size (lines 60-72).                              *)
(***************************************************************************)
TimeoutLimit == 45

\* int(x) for the rational n/d with d > 0: truncation toward zero
IntTrunc(n, d) == IF n >= 0 THEN n \div d ELSE -((-n) \div d)

\* the ceiling without the 20% safety margin
MaxSafeSizeNoMargin(timeout_limit, avg) ==
    IntTrunc(timeout_limit * avg[2], avg[1])

\* int(timeout_limit / avg * 0.8) with avg = avg[1] / avg[2]
MaxSafeSize(timeout_limit, avg) ==
    IntTrunc(timeout_limit * avg[2] * 8, avg[1] * 10)

TimeoutRisk(optimal_size) ==
    IF optimal_size <= 15 THEN "low"
    ELSE IF optimal_size <= 25 THEN "medium" ELSE "high"

RecommendedMinScore(optimal_size) ==
    IF optimal_size > 20 THEN 50 ELSE IF optimal_size > 10 THEN 30 ELSE 0

OptimalSize(requested_size, timeout_limit, stats) ==
    Min2(requested_size,
         Min2(MaxSafeSize(timeout_limit, stats.avg_ticker_time),
              stats.max_safe_batch_size))

calculate_optimal_scan_size(requested_size, timeout_limit, stats) ==
    LET optimal_size == OptimalSize(requested_size, timeout_limit, stats)
    IN  [optimal_size |-> optimal_size,
         estimated_time |-> <<optimal_size * stats.avg_ticker_time[1],
                              stats.avg_ticker_time[2]>>,
         timeout_risk |-> TimeoutRisk(optimal_size),
         recommended_min_score |-> RecommendedMinScore(optimal_size)]

(***************************************************************************)
(* process_ortex_json_fast (lines 108-141).                                *)
(* A JSON object is the sequence of its entries in document order; a key   *)
(* is the sequence of its characters; `num` says whether the value is an   *)
(* int or float, and then `value` is the number in thousandths.            *)
(***************************************************************************)
LowerChar(ch) ==
    CASE ch = "S" -> "s" [] ch = "I" -> "i" [] ch = "U" -> "u"
      [] ch = "T" -> "t" [] ch = "L" -> "l" [] ch = "C" -> "c"
      [] ch = "B" -> "b" [] ch = "D" -> "d" [] OTHER -> ch

\* str(key).lower()
Lower(key) == [i \in 1..Len(key) |-> LowerChar(key[i])]

\* frag in key
InKey(frag, key) ==
    \E i \in 0..(Len(key) - Len(frag)) :
        \A j \in 1..Len(frag) : key[i + j] = frag[j]

K_short_interest == <<"s","h","o","r","t","_","i","n","t","e","r","e","s","t">>
K_si == <<"s","i">>
K_utilization == <<"u","t","i","l","i","z","a","t","i","o","n">>
K_util == <<"u","t","i","l">>
K_cost_to_borrow == <<"c","o","s","t","_","t","o","_","b","o","r","r","o","w">>
K_ctb == <<"c","t","b">>
K_days_to_cover == <<"d","a","y","s","_","t","o","_","c","o","v","e","r">>
K_dtc == <<"d","t","c">>

\* the if/elif chain of lines 124-131: the field an entry's key selects
TargetField(key_lower) ==
    IF InKey(K_short_interest, key_lower) \/ InKey(K_si, key_lower)
      THEN "short_interest"
    ELSE IF InKey(K_utilization, key_lower) \/ InKey(K_util, key_lower)
      THEN "utilization"
    ELSE IF InKey(K_cost_to_borrow, key_lower) \/ InKey(K_ctb, key_lower)
      THEN "cost_to_borrow"
    ELSE IF InKey(K_days_to_cover, key_lower) \/ InKey(K_dtc, key_lower)
      THEN "days_to_cover"
    ELSE "none"

EmptyProcessed ==
    [short_interest |-> None, utilization |-> None,
     cost_to_borrow |-> None, days_to_cover |-> None,
     data_quality |-> "live_ortex", source_endpoints |-> <<"ortex_fast">>]

\* the loop of lines 121-131 over the entries of a JSON object
RECURSIVE ExtractFields(_, _)
ExtractFields(entries, processed) ==
    IF entries = <<>> THEN processed
    ELSE LET e == Head(entries)
             f == IF e.num THEN TargetField(Lower(e.key)) ELSE "none"
         IN  ExtractFields(Tail(entries),
                 IF f = "none" THEN processed
                 ELSE [processed EXCEPT ![f] = Some(e.value)])

\* Python truth value of an optional number: None and 0 are false
Truthy(o) == ~IsNone(o) /\ Val(o) # 0

\* lines 133-139: the three estimates from short_interest
DeriveMissing(p) ==
    LET si == p.short_interest
        p1 == IF Truthy(si) /\ ~Truthy(p.utilization)
              THEN [p EXCEPT !.utilization =
                        Some(Min2((Val(si) * 35) \div 10, 95000))]
              ELSE p
        p2 == IF Truthy(si) /\ ~Truthy(p1.days_to_cover)
              THEN [p1 EXCEPT !.days_to_cover =
                        Some(Max2((Val(si) * 2) \div 10, 800))]
              ELSE p1
        p3 == IF Truthy(si) /\ ~Truthy(p2.cost_to_borrow)
              THEN [p2 EXCEPT !.cost_to_borrow =
                        Some(Max2((Val(si) * 4) \div 10, 1000))]
              ELSE p2
    IN  p3

\* json_data is [is_dict |-> BOOLEAN, entries |-> sequence of entries]
process_ortex_json_fast(json_data) ==
    DeriveMissing(
        IF json_data.is_dict
        THEN ExtractFields(json_data.entries, EmptyProcessed)
        ELSE EmptyProcessed)

(***************************************************************************)
(* get_fast_ortex_data (lines 74-106).  `respond[k]` is what endpoint k    *)
(* does with the request: [kind, body], kind one of                        *)
(*   "error"     urlopen raises (transport error, timeout, HTTP error)     *)
(*   "status"    a status other than 200                                   *)
(*   "not_json"  200 with a Content-Type that is not application/json      *)
(*   "bad_json"  200, JSON Content-Type, body that does not parse          *)
(*   "json"      200, JSON Content-Type, body parses to `body`             *)
(***************************************************************************)
working_endpoints == <<"nasdaq", "nyse">>

\* a loop that requests an endpoint a second time when it did not answer
\* with JSON
RECURSIVE EndpointsTriedTwice(_, _)
EndpointsTriedTwice(respond, k) ==
    IF k > Len(working_endpoints) THEN <<>>
    ELSE IF respond[k].kind = "json" THEN <<working_endpoints[k]>>
    ELSE <<working_endpoints[k], working_endpoints[k]>>
         \o EndpointsTriedTwice(respond, k + 1)

\* the endpoints requested, in order: the loop stops at the first "json"
RECURSIVE EndpointsTried(_, _)
EndpointsTried(respond, k) ==
    IF k > Len(working_endpoints) THEN <<>>
    ELSE IF respond[k].kind = "json" THEN <<working_endpoints[k]>>
    ELSE <<working_endpoints[k]>> \o EndpointsTried(respond, k + 1)

\* a loop that goes through every endpoint and keeps the last JSON payload
RECURSIVE EndpointLoopLast(_, _)
EndpointLoopLast(respond, k) ==
    IF k > Len(working_endpoints) THEN None
    ELSE LET later == EndpointLoopLast(respond, k + 1)
         IN  IF ~IsNone(later) THEN later
             ELSE IF respond[k].kind = "json"
                  THEN Some(process_ortex_json_fast(respond[k].body))
                  ELSE None

RECURSIVE EndpointLoop(_, _)
EndpointLoop(respond, k) ==
    IF k > Len(working_endpoints) THEN None
    ELSE IF respond[k].kind = "json"
         THEN Some(process_ortex_json_fast(respond[k].body))
         ELSE EndpointLoop(respond, k + 1)

\* the truth value of ortex_key (lines 76 and 333)
KeyGivenAlways(ortex_key) == TRUE
KeyGiven(ortex_key) == ortex_key # ""

\* the value returned: None or Some(processed)
get_fast_ortex_data(ortex_key, respond) ==
    IF ~KeyGiven(ortex_key) THEN None ELSE EndpointLoop(respond, 1)

\* the provider requests the call sends for `ticker`
OrtexRequests(ticker, ortex_key, respond) ==
    IF ~KeyGiven(ortex_key) THEN <<>>
    ELSE LET tried == EndpointsTried(respond, 1)
         IN  [i \in 1..Len(tried) |-> <<ticker, tried[i]>>]

(***************************************************************************)
(* get_single_price_fast (lines 147-177).  `reply` is what the market-data *)
(* source does with the request: [kind, price, close, volume], kind one of *)
(*   "error"      urlopen or the parsing raises                            *)
(*   "malformed"  JSON without a non-empty chart.result                    *)
(*   "chart"      a chart result; price and close in cents                 *)
(* Prices are in cents, price_change_pct in hundredths of a percent.       *)
(***************************************************************************)
\* round(n / d) for d > 0, halves to the even neighbour
RoundDiv(n, d) ==
    LET q == n \div d
        r == n % d
    IN  IF 2 * r < d THEN q
        ELSE IF 2 * r > d THEN q + 1
        ELSE IF q % 2 = 0 THEN q ELSE q + 1

\* None when the function falls off its end (line 156 false)
get_single_price_fast(ticker, reply) ==
    IF reply.kind = "error"
      THEN Some([ticker |-> ticker, success |-> FALSE])
    ELSE IF reply.kind = "malformed" THEN None
    ELSE LET price_change ==
                 IF reply.close # 0 THEN reply.price - reply.close ELSE 0
             price_change_pct ==
                 IF reply.close # 0
                 THEN RoundDiv(price_change * 10000, reply.close) ELSE 0
         IN  Some([ticker |-> ticker,
                   current_price |-> reply.price,
                   price_change |-> price_change,
                   price_change_pct |-> price_change_pct,
                   volume |-> reply.volume,
                   success |-> TRUE])

(***************************************************************************)
(* generate_smart_mock_data (lines 194-249).                               *)
(* hash(ticker) depends on the process's hash seed; random.seed(h) then    *)
(* fixes every later random.uniform draw.  The k-th draw after seeding     *)
(* with h is modelled by the k-th decimal digit of h, as a tenth of the    *)
(* range.                                                                  *)
(***************************************************************************)
squeeze_profiles ==
    [t \in {"GME", "AMC", "SAVA", "VXRT", "BBBY", "BYND", "PTON"} |->
        CASE t = "GME"  -> [si |-> 22400, util |-> 89200, ctb |-> 12800, dtc |-> 4100]
          [] t = "AMC"  -> [si |-> 18700, util |-> 82100, ctb |-> 8900,  dtc |-> 3800]
          [] t = "SAVA" -> [si |-> 35200, util |-> 95100, ctb |-> 45800, dtc |-> 12300]
          [] t = "VXRT" -> [si |-> 28900, util |-> 87600, ctb |-> 18200, dtc |-> 8700]
          [] t = "BBBY" -> [si |-> 42100, util |-> 98200, ctb |-> 78500, dtc |-> 15800]
          [] t = "BYND" -> [si |-> 31500, util |-> 91700, ctb |-> 25300, dtc |-> 9200]
          [] OTHER      -> [si |-> 26800, util |-> 84500, ctb |-> 15700, dtc |-> 6800]]

\* hash(ticker) % 10000 under hash seed `salt`
HashMod(ticker, salt) == (MasterIndex(ticker) * 7919 + salt * 4973 + 1234) % 10000

\* the k-th decimal digit of the seed (k = 1 is the lowest)
Digit(seed, k) ==
    CASE k = 1 -> seed % 10
      [] k = 2 -> (seed \div 10) % 10
      [] k = 3 -> (seed \div 100) % 10
      [] OTHER -> (seed \div 1000) % 10

\* the k-th random.uniform(lo, hi) after random.seed(seed), in thousandths
Uniform(seed, k, lo, hi) == lo + ((hi - lo) * Digit(seed, k)) \div 10

\* round(x, 1) of a non-negative x in thousandths
Round1(x) == RoundDiv(x, 100) * 100

GeneratedProfile(ticker, salt) ==
    LET seed == HashMod(ticker, salt)
        lohi ==
            IF Contains(ticker_universe["top_meme_stocks"], ticker)
              THEN <<15000, 35000, 75000, 95000, 10000, 40000>>
            ELSE IF Contains(ticker_universe["biotech_squeeze"], ticker)
              THEN <<20000, 40000, 80000, 98000, 15000, 60000>>
            ELSE IF Contains(ticker_universe["large_cap_samples"], ticker)
              THEN <<1000, 6000, 20000, 50000, 500, 3000>>
            ELSE <<8000, 25000, 50000, 85000, 3000, 20000>>
        si_base == Uniform(seed, 1, lohi[1], lohi[2])
        util_base == Uniform(seed, 2, lohi[3], lohi[4])
        ctb_base == Uniform(seed, 3, lohi[5], lohi[6])
    IN  [si |-> Round1(si_base),
         util |-> Round1(util_base),
         ctb |-> Round1(ctb_base),
         dtc |-> Round1((si_base * Uniform(seed, 4, 200, 500)) \div 1000)]

\* a record that is always generated from the category, the profile table
\* being ignored
MockRecordGenerated(ticker, salt) ==
    LET profile == GeneratedProfile(ticker, salt)
    IN  [short_interest |-> Some(profile.si),
         utilization |-> Some(profile.util),
         cost_to_borrow |-> Some(profile.ctb),
         days_to_cover |-> Some(profile.dtc),
         data_quality |-> "smart_mock",
         source_endpoints |-> <<"enhanced_mock">>]

\* mock_data[ticker] of line 240
MockRecord(ticker, salt) ==
    LET profile == IF ticker \in DOMAIN squeeze_profiles
                   THEN squeeze_profiles[ticker]
                   ELSE GeneratedProfile(ticker, salt)
    IN  [short_interest |-> Some(profile.si),
         utilization |-> Some(profile.util),
         cost_to_borrow |-> Some(profile.ctb),
         days_to_cover |-> Some(profile.dtc),
         data_quality |-> "smart_mock",
         source_endpoints |-> <<"enhanced_mock">>]

generate_smart_mock_data(tickers, salt) ==
    [t \in Range(tickers) |-> MockRecord(t, salt)]

(***************************************************************************)
(* calculate_squeeze_score_optimized (lines 251-298).                      *)
(* Metrics are in thousandths, price_change_pct in hundredths, the score   *)
(* components in millionths.                                               *)
(***************************************************************************)
\* x in millionths rounded to the nearest integer
IntMicroRound(x) == RoundDiv(x, 1000000)

\* int(x) of x in millionths
IntMicro(x) == IntTrunc(x, 1000000)

\* tiers whose lower bounds are exclusive
SqueezeTypeStrict(total_score) ==
    IF total_score > 80 THEN "Extreme Squeeze Risk"
    ELSE IF total_score > 65 THEN "High Squeeze Risk"
    ELSE IF total_score > 45 THEN "Moderate Squeeze Risk"
    ELSE "Low Risk"

\* lines 275-283
SqueezeType(total_score) ==
    IF total_score >= 80 THEN "Extreme Squeeze Risk"
    ELSE IF total_score >= 65 THEN "High Squeeze Risk"
    ELSE IF total_score >= 45 THEN "Moderate Squeeze Risk"
    ELSE "Low Risk"

\* flags that a value at its threshold sets too
RiskFactorsInclusive(si, util, ctb) ==
    (IF si >= 25000 THEN <<"EXTREME_SHORT_INTEREST">> ELSE <<>>)
    \o (IF util >= 90000 THEN <<"HIGH_UTILIZATION">> ELSE <<>>)
    \o (IF ctb >= 20000 THEN <<"HIGH_BORROWING_COSTS">> ELSE <<>>)

\* lines 269-273
RiskFactors(si, util, ctb) ==
    (IF si > 25000 THEN <<"EXTREME_SHORT_INTEREST">> ELSE <<>>)
    \o (IF util > 90000 THEN <<"HIGH_UTILIZATION">> ELSE <<>>)
    \o (IF ctb > 20000 THEN <<"HIGH_BORROWING_COSTS">> ELSE <<>>)

ScoreError ==
    [squeeze_score |-> 0, squeeze_type |-> "Error", risk_factors |-> <<>>,
     score_breakdown |-> None]

\* lines 261-265: the five components, in millionths, of an input whose
\* four metrics are numbers
ScoreComponents(ortex, price) ==
    LET price_change_pct == price.price_change_pct
    IN  [short_interest |-> Min2(Val(ortex.short_interest) * 1200, 35000000),
         utilization |-> Min2(Val(ortex.utilization) * 250, 25000000),
         cost_to_borrow |-> Min2(Val(ortex.cost_to_borrow) * 800, 20000000),
         days_to_cover |-> Min2(Val(ortex.days_to_cover) * 1500, 15000000),
         momentum |-> IF price_change_pct > 0
                      THEN Max2(price_change_pct * 3000, 0) ELSE 0]

calculate_squeeze_score_optimized(ortex, price) ==
    IF \/ IsNone(ortex.short_interest) \/ IsNone(ortex.utilization)
       \/ IsNone(ortex.cost_to_borrow) \/ IsNone(ortex.days_to_cover)
    THEN ScoreError    \* None * 1.2 raises TypeError, caught at line 297
    ELSE
      LET si == Val(ortex.short_interest)
          util == Val(ortex.utilization)
          ctb == Val(ortex.cost_to_borrow)
          c == ScoreComponents(ortex, price)
          total_score ==
              IntMicro(c.short_interest + c.utilization + c.cost_to_borrow
                       + c.days_to_cover + c.momentum)
      IN  [squeeze_score |-> total_score,
           squeeze_type |-> SqueezeType(total_score),
           risk_factors |-> RiskFactors(si, util, ctb),
           score_breakdown |->
               Some([short_interest |-> IntMicro(c.short_interest),
                     utilization |-> IntMicro(c.utilization),
                     cost_to_borrow |-> IntMicro(c.cost_to_borrow),
                     days_to_cover |-> IntMicro(c.days_to_cover),
                     momentum |-> IntMicro(c.momentum)])]

\* an insertion that puts r in front of the results of equal score
RECURSIVE InsertByScoreUnstable(_, _)
InsertByScoreUnstable(sorted, r) ==
    IF sorted = <<>> THEN <<r>>
    ELSE IF Head(sorted).squeeze_score > r.squeeze_score
         THEN <<Head(sorted)>> \o InsertByScoreUnstable(Tail(sorted), r)
         ELSE <<r>> \o sorted

\* results.sort(key=squeeze_score, reverse=True): stable, equal keys keep order
RECURSIVE InsertByScore(_, _)
InsertByScore(sorted, r) ==
    IF sorted = <<>> THEN <<r>>
    ELSE IF Head(sorted).squeeze_score >= r.squeeze_score
         THEN <<Head(sorted)>> \o InsertByScore(Tail(sorted), r)
         ELSE <<r>> \o sorted

RECURSIVE SortByScore(_, _)
SortByScore(rs, acc) ==
    IF rs = <<>> THEN acc
    ELSE SortByScore(Tail(rs), InsertByScore(acc, Head(rs)))

(***************************************************************************)
(* The outside world of one scan: the request body, the market-data        *)
(* source and the short-interest provider.                                 *)
(***************************************************************************)
\* request['filters']: `nonempty` is the dict's truth value; categories is a
\* list (<<>> when absent or empty); max_tickers is None when absent
Filters(nonempty, categories, max_tickers) ==
    [nonempty |-> nonempty, categories |-> categories, max_tickers |-> max_tickers]

FilterMenu ==
    { Filters(FALSE, <<>>, None),
      Filters(TRUE, <<>>, None),
      Filters(TRUE, <<>>, Some(0)),
      Filters(TRUE, <<>>, Some(3)),
      Filters(TRUE, <<>>, Some(6)),
      Filters(TRUE, <<>>, Some(11)),
      Filters(TRUE, <<"large_cap_samples">>, Some(2)),
      Filters(TRUE, <<"large_cap_samples">>, Some(-5)),
      Filters(TRUE, <<"penny_stocks">>, Some(5)),
      Filters(TRUE, <<"large_cap_samples", "penny_stocks", "large_cap_samples">>, Some(20)) }

\* what later requests of the process may ask for
FollowUpMenu ==
    { Filters(TRUE, <<>>, Some(3)),
      Filters(TRUE, <<"large_cap_samples">>, Some(2)) }

RequestFilters(already_served) ==
    IF already_served = 0 THEN FilterMenu ELSE FollowUpMenu

KeyMenu == {"", "k"}

MarketMenu == {"calm", "mixed", "dark", "spike"}

Chart(price, close) == [kind |-> "chart", price |-> price, close |-> close, volume |-> 1000]
NoChart(kind) == [kind |-> kind, price |-> 0, close |-> 0, volume |-> 0]

\* what the market-data source answers for `ticker`
MarketReply(market, ticker) ==
    LET i == MasterIndex(ticker)
    IN  CASE market = "calm" -> Chart(1000, 1000)
          [] market = "mixed" ->
               CASE i % 4 = 0 -> Chart(2100, 2000)
                 [] i % 4 = 1 -> NoChart("error")
                 [] i % 4 = 2 -> Chart(968, 1000)
                 [] OTHER -> Chart(500, 0)
          [] market = "dark" ->
               IF i % 2 = 1 THEN NoChart("error") ELSE NoChart("malformed")
          [] OTHER -> IF i % 2 = 0 THEN Chart(600, 100) ELSE Chart(1000, 1000)

\* an entry of a JSON object; `num` is isinstance(value, (int, float)) of
\* line 122, json_type the type of the value in the document
Entry(key, num, value) ==
    [key |-> key, num |-> num, value |-> value,
     json_type |-> IF num THEN "number" ELSE "string"]
\* a JSON true or false: json.loads gives a bool, which is an int (True is 1)
BoolEntry(key, b) ==
    [key |-> key, num |-> TRUE, value |-> IF b THEN 1000 ELSE 0,
     json_type |-> "boolean"]
JsonObject(entries) == [is_dict |-> TRUE, entries |-> entries]

P_full ==
    JsonObject(<<Entry(K_short_interest, TRUE, 30000),
                 Entry(K_utilization, TRUE, 92000),
                 Entry(K_cost_to_borrow, TRUE, 25000),
                 Entry(K_days_to_cover, TRUE, 5000)>>)
P_empty == JsonObject(<<>>)
P_si_only == JsonObject(<<Entry(<<"S", "I">>, TRUE, 18000)>>)
P_util_only ==
    JsonObject(<<Entry(<<"s","y","m","b","o","l">>, FALSE, 0),
                 Entry(<<"u","t","i","l","_","p","c","t">>, TRUE, 80000)>>)
P_zero ==
    JsonObject(<<Entry(K_short_interest, TRUE, 20000),
                 Entry(K_utilization, TRUE, 0)>>)

Http(kind) == [kind |-> kind, body |-> P_empty]
Json(body) == [kind |-> "json", body |-> body]

OrtexWorlds == {"down", "full", "mixed", "sparse"}

\* what the two provider endpoints answer for `ticker`
ProviderReply(world, ticker) ==
    LET i == MasterIndex(ticker)
    IN  CASE world = "down" -> <<Http("error"), Http("error")>>
          [] world = "full" -> <<Json(P_full), Http("error")>>
          [] world = "mixed" ->
               CASE i % 3 = 0 -> <<Http("status"), Json(P_si_only)>>
                 [] i % 3 = 1 -> <<Json(P_empty), Json(P_full)>>
                 [] OTHER -> <<Http("bad_json"), Http("error")>>
          [] OTHER ->
               IF i % 2 = 0 THEN <<Http("not_json"), Json(P_util_only)>>
               ELSE <<Json(P_zero), Http("error")>>

\* seconds a scan may measure between lines 302 and 379
ElapsedChoices == {6, 33}

(***************************************************************************)
(* The state machine.                                                      *)
(***************************************************************************)
NoRequest == [ortex_key |-> "", filters |-> Filters(FALSE, <<>>, None), market |-> "calm"]
NoStats == [avg_ticker_time |-> <<0, 1>>, max_safe_batch_size |-> 0, timeout_threshold |-> 0]
NoPlan == [optimal_size |-> 0, estimated_time |-> <<0, 1>>,
           timeout_risk |-> "none", recommended_min_score |-> 0]

Init ==
    /\ hash_salt \in 0..MaxSalt
    /\ served = 0
    /\ last_written = None
    /\ pc = "idle"
    /\ request = NoRequest
    /\ performance_stats = NoStats
    /\ scan_lock = "none"
    /\ optimization = NoPlan
    /\ plan_avg = None
    /\ scan_optimization = None
    /\ scan_tickers = <<>>
    /\ fut = <<>>
    /\ collected = <<>>
    /\ reorders = 0
    /\ timed_out = FALSE
    /\ raised = None
    /\ price_requests = <<>>
    /\ price_data = EmptyMap
    /\ successful_tickers = <<>>
    /\ ortex_world = "none"
    /\ ortex_next = 0
    /\ ortex_log = <<>>
    /\ ortex_returned = EmptyMap
    /\ ortex_data = EmptyMap
    /\ results = <<>>
    /\ squeeze_metrics = EmptyMap
    /\ total_time = 0
    /\ response = None

\* The server accepts a request: it constructs the handler (__init__, lines
\* 14-58) and handle_optimized_scan decodes the body (lines 418-423).
Receive(req) ==
    /\ pc \in {"idle", "done"}
    /\ served < MaxScans
    /\ served' = served + 1
    /\ request' = req
    /\ performance_stats' = InitialPerformanceStats
    /\ scan_lock' = "free"
    /\ pc' = "plan"
    /\ optimization' = NoPlan
    /\ plan_avg' = None
    /\ scan_optimization' = None
    /\ scan_tickers' = <<>>
    /\ fut' = <<>>
    /\ collected' = <<>>
    /\ reorders' = 0
    /\ timed_out' = FALSE
    /\ raised' = None
    /\ price_requests' = <<>>
    /\ price_data' = EmptyMap
    /\ successful_tickers' = <<>>
    /\ ortex_world' = "none"
    /\ ortex_next' = 0
    /\ ortex_log' = <<>>
    /\ ortex_returned' = EmptyMap
    /\ ortex_data' = EmptyMap
    /\ results' = <<>>
    /\ squeeze_metrics' = EmptyMap
    /\ total_time' = 0
    /\ response' = None
    /\ UNCHANGED <<hash_salt, last_written>>

\* a failure body that still says success
ErrorResponseAsSuccess(message) == [success |-> TRUE, error |-> message]
\* line 446: the failure body
ErrorResponse(message) == [success |-> FALSE, error |-> message]

\* The server accepts a request whose body is not a JSON object (lines
\* 418-423): json.loads raises JSONDecodeError, or data.get raises
\* AttributeError; the except clause of lines 445-450 answers.
RejectBody ==
    /\ pc \in {"idle", "done"}
    /\ served < MaxScans
    /\ served' = served + 1
    /\ request' = NoRequest
    /\ performance_stats' = InitialPerformanceStats
    /\ scan_lock' = "free"
    /\ optimization' = NoPlan
    /\ plan_avg' = None
    /\ scan_optimization' = None
    /\ scan_tickers' = <<>>
    /\ fut' = <<>>
    /\ collected' = <<>>
    /\ reorders' = 0
    /\ timed_out' = FALSE
    /\ raised' = Some("JSONDecodeError")
    /\ price_requests' = <<>>
    /\ price_data' = EmptyMap
    /\ successful_tickers' = <<>>
    /\ ortex_world' = "none"
    /\ ortex_next' = 0
    /\ ortex_log' = <<>>
    /\ ortex_returned' = EmptyMap
    /\ ortex_data' = EmptyMap
    /\ results' = <<>>
    /\ squeeze_metrics' = EmptyMap
    /\ total_time' = 0
    /\ response' = Some(ErrorResponse(Val(raised')))
    /\ pc' = "done"
    /\ UNCHANGED <<hash_salt, last_written>>

\* filters.get('max_tickers', 20)
RequestedSize(filters) ==
    IF IsNone(filters.max_tickers) THEN 20 ELSE Val(filters.max_tickers)

\* handle_optimized_scan, lines 426-427
Plan ==
    /\ pc = "plan"
    /\ plan_avg' = Some(performance_stats.avg_ticker_time)
    /\ optimization' =
          calculate_optimal_scan_size(RequestedSize(request.filters),
                                      TimeoutLimit, performance_stats)
    /\ pc' = "select"
    /\ UNCHANGED <<hash_salt, served, last_written, request, performance_stats,
                   scan_lock, scan_optimization, scan_tickers, fut, collected, reorders,
                   timed_out, raised, price_requests, price_data, successful_tickers,
                   ortex_world, ortex_next, ortex_log, ortex_returned, ortex_data, results, squeeze_metrics,
                   total_time, response>>

\* list(set(tickers)): the distinct tickers in the order the hash seed gives
SetOrder(tickers, salt) ==
    LET distinct == Dedup(tickers, {})
    IN  IF distinct = <<>> THEN <<>>
        ELSE IF salt % 2 = 0 THEN Rotate(distinct, salt \div 2)
        ELSE Reverse(Rotate(distinct, salt \div 2))

\* lines 310-313
RECURSIVE FilteredTickers(_)
FilteredTickers(categories) ==
    IF categories = <<>> THEN <<>>
    ELSE (IF Head(categories) \in DOMAIN ticker_universe
          THEN ticker_universe[Head(categories)] ELSE <<>>)
         \o FilteredTickers(Tail(categories))

DefaultSafeSize == 15

\* a selection that falls back to the master list when no named category
\* exists
SelectTickersFallback(filters, stats, salt) ==
    IF filters.nonempty
    THEN LET named == IF filters.categories # <<>>
                      THEN SetOrder(FilteredTickers(filters.categories), salt)
                      ELSE master_ticker_list
             resolved == IF named = <<>> THEN master_ticker_list ELSE named
             plan == calculate_optimal_scan_size(RequestedSize(filters),
                                                 TimeoutLimit, stats)
         IN  PySliceTo(resolved, plan.optimal_size)
    ELSE PySliceTo(master_ticker_list, DefaultSafeSize)

\* lines 306-320: the tickers to scan
SelectTickers(filters, stats, salt) ==
    IF filters.nonempty
    THEN LET resolved == IF filters.categories # <<>>
                         THEN SetOrder(FilteredTickers(filters.categories), salt)
                         ELSE master_ticker_list
             plan == calculate_optimal_scan_size(RequestedSize(filters),
                                                 TimeoutLimit, stats)
         IN  PySliceTo(resolved, plan.optimal_size)
    ELSE PySliceTo(master_ticker_list, DefaultSafeSize)

\* perform_optimized_scan, lines 302-322
Select ==
    /\ pc = "select"
    /\ scan_optimization' =
          IF request.filters.nonempty
          THEN Some(calculate_optimal_scan_size(RequestedSize(request.filters),
                                                TimeoutLimit, performance_stats))
          ELSE None
    /\ scan_tickers' = SelectTickers(request.filters, performance_stats, hash_salt)
    /\ pc' = "submit"
    /\ UNCHANGED <<hash_salt, served, last_written, request, performance_stats,
                   scan_lock, optimization, plan_avg, fut, collected, reorders,
                   timed_out, raised, price_requests, price_data, successful_tickers,
                   ortex_world, ortex_next, ortex_log, ortex_returned, ortex_data, results, squeeze_metrics,
                   total_time, response>>

(***************************************************************************)
(* get_yahoo_price_data_fast (lines 143-192) as called at line 326.        *)
(* A future is "queued", "running" or "done".  The pool has max_workers    *)
(* threads; a thread that finishes a fetch takes the oldest queued one.    *)
(***************************************************************************)
MaxWorkers == 12

RunningSet(f) == {i \in 1..Len(f) : f[i] = "running"}
Pending(f) == {i \in 1..Len(f) : f[i] # "done"}

\* fetches the pool runs at once out of n submitted
StartCountAll(n, max_workers) == n
StartCount(n, max_workers) == Min2(n, max_workers)

\* lines 180-181: the pool is created and every ticker submitted
Submit ==
    /\ pc = "submit"
    /\ LET n == Len(scan_tickers)
           k == StartCount(n, MaxWorkers)
       IN  /\ fut' = [i \in 1..n |-> IF i <= k THEN "running" ELSE "queued"]
           /\ price_requests' = [i \in 1..n |-> IF i <= k THEN 1 ELSE 0]
    /\ collected' = <<>>
    /\ reorders' = 0
    /\ pc' = "feed"
    /\ UNCHANGED <<hash_salt, served, last_written, request, performance_stats,
                   scan_lock, optimization, plan_avg, scan_optimization,
                   scan_tickers, timed_out, raised, price_data, successful_tickers,
                   ortex_world, ortex_next, ortex_log, ortex_returned, ortex_data, results, squeeze_metrics,
                   total_time, response>>

\* the future the freed thread takes next: the oldest queued one, or 0
NextQueued(f) ==
    IF \E j \in 1..Len(f) : f[j] = "queued"
    THEN CHOOSE j \in 1..Len(f) :
            f[j] = "queued" /\ \A m \in 1..(j - 1) : f[m] # "queued"
    ELSE 0

\* a loop body that stores whatever record a fetch returned
CollectAny(price_seq, result) ==
    IF ~IsNone(result) THEN Append(price_seq, Val(result)) ELSE price_seq

\* lines 185-187: price_data after the loop body saw `result`
Collect(price_seq, result) ==
    IF ~IsNone(result) /\ Val(result).success
    THEN Append(price_seq, Val(result))
    ELSE price_seq

\* Fetch i returns (get_single_price_fast, lines 147-177); while the main
\* thread is still in the as_completed loop it takes the result (lines
\* 183-190); the freed thread starts the oldest queued fetch.
FinishFetch(i) ==
    /\ pc \in {"feed", "feed_exit"}
    /\ i \in RunningSet(fut)
    /\ LET overtaken == Cardinality({j \in RunningSet(fut) : j < i})
       IN  /\ overtaken <= MaxOvertaken
           /\ reorders' = IF overtaken > 0 THEN reorders + 1 ELSE reorders
           /\ reorders' <= MaxReorders
    /\ LET nxt == NextQueued(fut)
       IN  /\ fut' = [j \in 1..Len(fut) |->
                        IF j = i THEN "done"
                        ELSE IF j = nxt THEN "running" ELSE fut[j]]
           /\ price_requests' = [j \in 1..Len(fut) |->
                        IF j = nxt THEN price_requests[j] + 1
                        ELSE price_requests[j]]
    /\ collected' =
          IF pc = "feed"
          THEN Collect(collected,
                       get_single_price_fast(scan_tickers[i],
                           MarketReply(request.market, scan_tickers[i])))
          ELSE collected
    /\ UNCHANGED <<hash_salt, served, last_written, pc, request,
                   performance_stats, scan_lock, optimization, plan_avg,
                   scan_optimization, scan_tickers, timed_out, raised, price_data,
                   successful_tickers, ortex_world, ortex_next, ortex_log, ortex_returned,
                   ortex_data, results, squeeze_metrics, total_time, response>>

\* line 183: 30 s after the call as_completed raises TimeoutError because
\* futures are unfinished; the exception leaves the `with` block of line
\* 180, whose exit is executor.shutdown(wait=True); the partial price_data
\* is never read again
Deadline ==
    /\ pc = "feed"
    /\ Pending(fut) # {}
    /\ timed_out' = TRUE
    /\ raised' = Some("TimeoutError")
    /\ collected' = <<>>
    /\ pc' = "feed_exit"
    /\ UNCHANGED <<hash_salt, served, last_written, request, performance_stats,
                   scan_lock, optimization, plan_avg, scan_optimization,
                   scan_tickers, fut, reorders, price_requests, price_data,
                   successful_tickers, ortex_world, ortex_next, ortex_log, ortex_returned,
                   ortex_data, results, squeeze_metrics, total_time, response>>

\* shutdown(wait=True) returns once every submitted fetch has run; the
\* TimeoutError then propagates through perform_optimized_scan to the
\* except clause of handle_optimized_scan (lines 445-450)
FeedRaise ==
    /\ pc = "feed_exit"
    /\ Pending(fut) = {}
    /\ response' = Some(ErrorResponse(Val(raised)))
    /\ pc' = "done"
    /\ UNCHANGED <<hash_salt, served, last_written, request, performance_stats,
                   scan_lock, optimization, plan_avg, scan_optimization,
                   scan_tickers, fut, collected, reorders, timed_out, raised, price_requests,
                   price_data, successful_tickers, ortex_world, ortex_next,
                   ortex_log, ortex_returned, ortex_data, results, squeeze_metrics, total_time>>

\* the dict built from the (ticker, quote) insertions, in order
PriceMap(price_seq) ==
    [t \in {price_seq[i].ticker : i \in 1..Len(price_seq)} |->
        LET last == CHOOSE i \in 1..Len(price_seq) :
                       /\ price_seq[i].ticker = t
                       /\ \A j \in (i + 1)..Len(price_seq) : price_seq[j].ticker # t
        IN  price_seq[last]]

\* the priced tickers in the order their fetches completed
SuccessfulTickersByArrival(tickers, price_seq) ==
    Dedup([i \in 1..Len(price_seq) |-> price_seq[i].ticker], {})

\* line 327
SuccessfulTickers(tickers, price_seq) ==
    LET InPriceData(t) == t \in DOMAIN PriceMap(price_seq)
    IN  SelectSeq(tickers, InPriceData)

\* line 192 and lines 326-327: every future was yielded, the feed returns
FeedReturn ==
    /\ pc = "feed"
    /\ Pending(fut) = {}
    /\ price_data' = PriceMap(collected)
    /\ successful_tickers' = SuccessfulTickers(scan_tickers, collected)
    /\ collected' = <<>>
    /\ pc' = "gate"
    /\ UNCHANGED <<hash_salt, served, last_written, request, performance_stats,
                   scan_lock, optimization, plan_avg, scan_optimization,
                   scan_tickers, fut, reorders, timed_out, raised, price_requests,
                   ortex_world, ortex_next, ortex_log, ortex_returned, ortex_data, results, squeeze_metrics,
                   total_time, response>>

(***************************************************************************)
(* perform_optimized_scan after the price feed (lines 331-397).            *)
(***************************************************************************)
OrtexBatchLimit == 10
OrtexTopLimit == 5

\* line 333
OrtexGateOpen(ortex_key, priced) ==
    KeyGiven(ortex_key) /\ Len(priced) <= OrtexBatchLimit

\* successful_tickers[:5] of line 335
OrtexCandidatesAll(priced) == priced
OrtexCandidates(priced) == PySliceTo(priced, OrtexTopLimit)

\* lines 332-333: the provider is tried or skipped
OrtexGate ==
    /\ pc = "gate"
    /\ IF OrtexGateOpen(request.ortex_key, successful_tickers)
          /\ OrtexCandidates(successful_tickers) # <<>>
       THEN /\ ortex_world' \in OrtexWorlds
            /\ ortex_next' = 1
            /\ pc' = "ortex"
       ELSE /\ pc' = "backfill"
            /\ UNCHANGED <<ortex_world, ortex_next>>
    /\ UNCHANGED <<hash_salt, served, last_written, request, performance_stats,
                   scan_lock, optimization, plan_avg, scan_optimization,
                   scan_tickers, fut, collected, reorders, timed_out, raised, price_requests,
                   price_data, successful_tickers, ortex_log, ortex_returned, ortex_data,
                   results, squeeze_metrics, total_time, response>>

\* dict d after d[k] = v
MapPut(d, k, v) == [x \in DOMAIN d \cup {k} |-> IF x = k THEN v ELSE d[x]]

\* lines 335-339: one iteration, the whole get_fast_ortex_data call
OrtexCall ==
    /\ pc = "ortex"
    /\ LET ticker == OrtexCandidates(successful_tickers)[ortex_next]
           reply == ProviderReply(ortex_world, ticker)
           ortex_result == get_fast_ortex_data(request.ortex_key, reply)
       IN  /\ ortex_log' = ortex_log \o OrtexRequests(ticker, request.ortex_key, reply)
           /\ ortex_returned' = MapPut(ortex_returned, ticker, ortex_result)
           /\ ortex_data' = IF ~IsNone(ortex_result)
                            THEN MapPut(ortex_data, ticker, Val(ortex_result))
                            ELSE ortex_data
    /\ ortex_next' = ortex_next + 1
    /\ pc' = IF ortex_next + 1 > Len(OrtexCandidates(successful_tickers))
             THEN "backfill" ELSE "ortex"
    /\ UNCHANGED <<hash_salt, served, last_written, request, performance_stats,
                   scan_lock, optimization, plan_avg, scan_optimization,
                   scan_tickers, fut, collected, reorders, timed_out, raised, price_requests,
                   price_data, successful_tickers, ortex_world, results, squeeze_metrics,
                   total_time, response>>

\* a fill loop that completes unset live fields with the mock values
BackfillDataBlend(live, priced, salt) ==
    LET mock_data == generate_smart_mock_data(priced, salt)
        Fill(a, b) == IF IsNone(a) THEN b ELSE a
    IN  [t \in DOMAIN live \cup Range(priced) |->
            IF t \in DOMAIN live /\ Contains(priced, t)
            THEN [short_interest |-> Fill(live[t].short_interest, mock_data[t].short_interest),
                  utilization |-> Fill(live[t].utilization, mock_data[t].utilization),
                  cost_to_borrow |-> Fill(live[t].cost_to_borrow, mock_data[t].cost_to_borrow),
                  days_to_cover |-> Fill(live[t].days_to_cover, mock_data[t].days_to_cover),
                  data_quality |-> "live_ortex",
                  source_endpoints |-> live[t].source_endpoints]
            ELSE IF t \in DOMAIN live THEN live[t] ELSE mock_data[t]]

\* lines 342-349: ortex_data after the fill loop
BackfillData(live, priced, salt) ==
    LET mock_data == generate_smart_mock_data(priced, salt)
    IN  [t \in DOMAIN live \cup Range(priced) |->
            IF t \in DOMAIN live
            THEN IF Contains(priced, t)
                 THEN [live[t] EXCEPT !.data_quality = "live_ortex"]
                 ELSE live[t]
            ELSE mock_data[t]]

Backfill ==
    /\ pc = "backfill"
    /\ ortex_data' = BackfillData(ortex_data, successful_tickers, hash_salt)
    /\ pc' = "score"
    /\ UNCHANGED <<hash_salt, served, last_written, request, performance_stats,
                   scan_lock, optimization, plan_avg, scan_optimization,
                   scan_tickers, fut, collected, reorders, timed_out, raised, price_requests,
                   price_data, successful_tickers, ortex_world, ortex_next,
                   ortex_log, ortex_returned, results, squeeze_metrics, total_time, response>>

\* lines 357-373: the result of one ticker
ResultOf(ticker, metrics, quote) ==
    LET scored == calculate_squeeze_score_optimized(metrics, quote)
    IN  [ticker |-> ticker,
         squeeze_score |-> scored.squeeze_score,
         squeeze_type |-> scored.squeeze_type,
         current_price |-> quote.current_price,
         price_change |-> quote.price_change,
         price_change_pct |-> quote.price_change_pct,
         volume |-> quote.volume,
         ortex_data |-> metrics,
         risk_factors |-> scored.risk_factors,
         data_quality |-> metrics.data_quality]

\* a scoring loop that a fault ends: the faulty ticker and those after it
\* get no result
RECURSIVE ScoreAllAbort(_, _, _)
ScoreAllAbort(priced, metrics, quotes) ==
    IF priced = <<>> THEN <<>>
    ELSE LET t == Head(priced)
         IN  IF t \in DOMAIN metrics
                /\ calculate_squeeze_score_optimized(metrics[t], quotes[t]) = ScoreError
             THEN <<>>
             ELSE (IF t \in DOMAIN metrics
                   THEN <<ResultOf(t, metrics[t], quotes[t])>> ELSE <<>>)
                  \o ScoreAllAbort(Tail(priced), metrics, quotes)

\* lines 353-374: results before the sort
RECURSIVE ScoreAll(_, _, _)
ScoreAll(priced, metrics, quotes) ==
    IF priced = <<>> THEN <<>>
    ELSE LET t == Head(priced)
         IN  (IF t \in DOMAIN metrics
              THEN <<ResultOf(t, metrics[t], quotes[t])>> ELSE <<>>)
             \o ScoreAll(Tail(priced), metrics, quotes)

\* lines 355-359: squeeze_metrics of every ticker the loop scores
SqueezeMetrics(priced, metrics, quotes) ==
    [t \in Range(priced) \cap DOMAIN metrics |->
        calculate_squeeze_score_optimized(metrics[t], quotes[t])]

\* lines 353-377
RankedResults(priced, metrics, quotes) ==
    SortByScore(ScoreAll(priced, metrics, quotes), <<>>)

Score ==
    /\ pc = "score"
    /\ results' = RankedResults(successful_tickers, ortex_data, price_data)
    /\ squeeze_metrics' = SqueezeMetrics(successful_tickers, ortex_data, price_data)
    /\ pc' = "calibrate"
    /\ UNCHANGED <<hash_salt, served, last_written, request, performance_stats,
                   scan_lock, optimization, plan_avg, scan_optimization,
                   scan_tickers, fut, collected, reorders, timed_out, raised, price_requests,
                   price_data, successful_tickers, ortex_world, ortex_next,
                   ortex_log, ortex_returned, ortex_data, total_time, response>>

\* a write of the estimate that is made whatever the count
CalibratedAlways(stats, elapsed, count) ==
    [stats EXCEPT !.avg_ticker_time = <<elapsed, count>>]

\* lines 383-384: performance_stats after a scan of `count` results
Calibrated(stats, elapsed, count) ==
    IF count > 0
    THEN [stats EXCEPT !.avg_ticker_time = <<elapsed, count>>]
    ELSE stats

\* lines 379-384
Calibrate ==
    /\ pc = "calibrate"
    /\ \E elapsed \in ElapsedChoices :
          /\ total_time' = elapsed
          /\ performance_stats' = Calibrated(performance_stats, elapsed, Len(results))
          /\ last_written' = IF performance_stats' # performance_stats
                             THEN Some(performance_stats'.avg_ticker_time)
                             ELSE last_written
    /\ pc' = "respond"
    /\ UNCHANGED <<hash_salt, served, request, scan_lock, optimization,
                   plan_avg, scan_optimization, scan_tickers, fut, collected, reorders,
                   timed_out, raised, price_requests, price_data, successful_tickers,
                   ortex_world, ortex_next, ortex_log, ortex_returned, ortex_data, results, squeeze_metrics,
                   response>>

PerformanceRating(elapsed) ==
    IF elapsed < 15 THEN "excellent"
    ELSE IF elapsed < 30 THEN "good" ELSE "acceptable"

LiveResults(rs) == {i \in 1..Len(rs) : rs[i].data_quality = "live_ortex"}

\* lines 388-396
ScanStats(tickers, rs, elapsed) ==
    [total_tickers_scanned |-> Len(tickers),
     successful_analysis |-> Len(rs),
     live_ortex_count |-> Cardinality(LiveResults(rs)),
     scan_time_seconds |-> elapsed,
     performance_rating |-> PerformanceRating(elapsed),
     top_score |-> IF rs # <<>> THEN rs[1].squeeze_score ELSE 0]

\* lines 432-438
SuccessResponse(rs, stats, plan) ==
    [success |-> TRUE, scan_results |-> rs, scan_stats |-> stats,
     optimization_info |-> plan]

\* lines 386-397 and 432-443
Respond ==
    /\ pc = "respond"
    /\ response' = Some(SuccessResponse(results,
                            ScanStats(scan_tickers, results, total_time),
                            optimization))
    /\ pc' = "done"
    /\ UNCHANGED <<hash_salt, served, last_written, request, performance_stats,
                   scan_lock, optimization, plan_avg, scan_optimization,
                   scan_tickers, fut, collected, reorders, timed_out, raised, price_requests,
                   price_data, successful_tickers, ortex_world, ortex_next,
                   ortex_log, ortex_returned, ortex_data, results, squeeze_metrics, total_time>>

Next ==
    \/ \E key \in KeyMenu, f \in RequestFilters(served), m \in MarketMenu :
          Receive([ortex_key |-> key, filters |-> f, market |-> m])
    \/ RejectBody
    \/ Plan
    \/ Select
    \/ Submit
    \/ \E i \in 1..Len(fut) : FinishFetch(i)
    \/ Deadline
    \/ FeedRaise
    \/ FeedReturn
    \/ OrtexGate
    \/ OrtexCall
    \/ Backfill
    \/ Score
    \/ Calibrate
    \/ Respond

Spec == Init /\ [][Next]_vars

(***************************************************************************)
(* Progress.  The handler's thread keeps running and every price fetch     *)
(* returns (urlopen has a timeout, line 152), so a step of the handler or  *)
(* of a fetch that stays possible is taken.  Whether the 30 s deadline of  *)
(* line 183 expires, and whether another request arrives, is left open.    *)
(***************************************************************************)
HandlerStep ==
    \/ Plan
    \/ Select
    \/ Submit
    \/ \E i \in 1..Len(fut) : FinishFetch(i)
    \/ FeedRaise
    \/ FeedReturn
    \/ OrtexGate
    \/ OrtexCall
    \/ Backfill
    \/ Score
    \/ Calibrate
    \/ Respond

SpecLive == Init /\ [][Next]_vars /\ WF_vars(HandlerStep)

(***************************************************************************)
(* calculate_optimal_scan_size on its own: any requested size, any         *)
(* calibration, any ceiling.                                               *)
(***************************************************************************)
\* largest requested size tried
MaxRequested == 27
\* largest numerator of avg_ticker_time tried (denominators 1, 2 and 7)
MaxAvgNum == 10

PlannerSizes == (-3)..MaxRequested
PlannerAvgs == {<<n, d>> : n \in 1..MaxAvgNum, d \in {1, 2, 7}}
PlannerCeilings == {5, DefaultMaxSafeBatchSize, 30}

InitPlanner ==
    /\ hash_salt = 0
    /\ served = 0
    /\ last_written = None
    /\ pc = "planner"
    /\ \E n \in PlannerSizes :
          request = [ortex_key |-> "", filters |-> Filters(TRUE, <<>>, Some(n)),
                     market |-> "calm"]
    /\ \E avg \in PlannerAvgs, ceiling \in PlannerCeilings :
          performance_stats = [avg_ticker_time |-> avg,
                               max_safe_batch_size |-> ceiling,
                               timeout_threshold |-> DefaultTimeoutThreshold]
    /\ scan_lock = "free"
    /\ optimization = NoPlan
    /\ plan_avg = None
    /\ scan_optimization = None
    /\ scan_tickers = <<>>
    /\ fut = <<>>
    /\ collected = <<>>
    /\ reorders = 0
    /\ timed_out = FALSE
    /\ raised = None
    /\ price_requests = <<>>
    /\ price_data = EmptyMap
    /\ successful_tickers = <<>>
    /\ ortex_world = "none"
    /\ ortex_next = 0
    /\ ortex_log = <<>>
    /\ ortex_returned = EmptyMap
    /\ ortex_data = EmptyMap
    /\ results = <<>>
    /\ squeeze_metrics = EmptyMap
    /\ total_time = 0
    /\ response = None

\* one call of calculate_optimal_scan_size(requested_size)
PlannerCall ==
    /\ pc = "planner"
    /\ plan_avg' = Some(performance_stats.avg_ticker_time)
    /\ optimization' =
          calculate_optimal_scan_size(RequestedSize(request.filters),
                                      TimeoutLimit, performance_stats)
    /\ pc' = "planned"
    /\ UNCHANGED <<hash_salt, served, last_written, request, performance_stats,
                   scan_lock, scan_optimization, scan_tickers, fut, collected,
                   reorders, timed_out, raised, price_requests, price_data,
                   successful_tickers, ortex_world, ortex_next, ortex_log, ortex_returned,
                   ortex_data, results, squeeze_metrics, total_time, response>>

NextPlanner == PlannerCall

SpecPlanner == InitPlanner /\ [][NextPlanner]_vars

(***************************************************************************)
(* calculate_optimal_scan_size on the number the request carries.          *)
(* json.loads (line 420) reads the literal NaN as a float, and line 425    *)
(* passes filters['max_tickers'] on unchecked.  A number is a record:      *)
(* `nan` says that it is the float NaN, and otherwise `value` is the       *)
(* integer.  Every ordering comparison with NaN is false.  The ceiling is  *)
(* the one of construction; the calibration is any positive average.       *)
(***************************************************************************)
JsonNumber(nan, value) == [nan |-> nan, value |-> value]
NaN == JsonNumber(TRUE, 0)
IntNumber(n) == JsonNumber(FALSE, n)

NumLt(a, b) == ~a.nan /\ ~b.nan /\ a.value < b.value
NumLe(a, b) == ~a.nan /\ ~b.nan /\ a.value <= b.value
NumGt(a, b) == ~a.nan /\ ~b.nan /\ a.value > b.value

\* min(a, b, c): the first argument is kept unless a later one is less
PyMin3(a, b, c) ==
    LET ab == IF NumLt(b, a) THEN b ELSE a
    IN  IF NumLt(c, ab) THEN c ELSE ab

\* lines 60-72 for a requested_size that may be NaN
PlanOfNumber(requested_size, timeout_limit, stats) ==
    LET avg == stats.avg_ticker_time
        max_safe_size == IntNumber(MaxSafeSize(timeout_limit, avg))
        optimal_size == PyMin3(requested_size, max_safe_size,
                               IntNumber(stats.max_safe_batch_size))
    IN  [optimal_size |-> optimal_size,
         estimated_time |-> IF optimal_size.nan THEN <<0, 0>>
                            ELSE <<optimal_size.value * avg[1], avg[2]>>,
         timeout_risk |->
             IF NumLe(optimal_size, IntNumber(15)) THEN "low"
             ELSE IF NumLe(optimal_size, IntNumber(25)) THEN "medium" ELSE "high",
         recommended_min_score |->
             IF NumGt(optimal_size, IntNumber(20)) THEN 50
             ELSE IF NumGt(optimal_size, IntNumber(10)) THEN 30 ELSE 0]

\* the numbers a request may carry in filters['max_tickers']
RequestNumbers == {IntNumber(n) : n \in PlannerSizes} \cup {NaN}

InitNumber ==
    /\ hash_salt = 0
    /\ served = 0
    /\ last_written = None
    /\ pc = "number_plan"
    /\ \E x \in RequestNumbers :
          request = [ortex_key |-> "", filters |-> Filters(TRUE, <<>>, Some(x)),
                     market |-> "calm"]
    /\ \E avg \in PlannerAvgs :
          performance_stats = [avg_ticker_time |-> avg,
                               max_safe_batch_size |-> DefaultMaxSafeBatchSize,
                               timeout_threshold |-> DefaultTimeoutThreshold]
    /\ scan_lock = "free"
    /\ optimization = NoPlan
    /\ plan_avg = None
    /\ scan_optimization = None
    /\ scan_tickers = <<>>
    /\ fut = <<>>
    /\ collected = <<>>
    /\ reorders = 0
    /\ timed_out = FALSE
    /\ raised = None
    /\ price_requests = <<>>
    /\ price_data = EmptyMap
    /\ successful_tickers = <<>>
    /\ ortex_world = "none"
    /\ ortex_next = 0
    /\ ortex_log = <<>>
    /\ ortex_returned = EmptyMap
    /\ ortex_data = EmptyMap
    /\ results = <<>>
    /\ squeeze_metrics = EmptyMap
    /\ total_time = 0
    /\ response = None

\* handle_optimized_scan, lines 425-426
PlanNumber ==
    /\ pc = "number_plan"
    /\ plan_avg' = Some(performance_stats.avg_ticker_time)
    /\ optimization' = PlanOfNumber(Val(request.filters.max_tickers),
                                    TimeoutLimit, performance_stats)
    /\ pc' = "number_select"
    /\ UNCHANGED <<hash_salt, served, last_written, request, performance_stats,
                   scan_lock, scan_optimization, scan_tickers, fut, collected,
                   reorders, timed_out, raised, price_requests, price_data,
                   successful_tickers, ortex_world, ortex_next, ortex_log, ortex_returned,
                   ortex_data, results, squeeze_metrics, total_time, response>>

\* perform_optimized_scan, lines 317-319, for a whole optimal_size
SliceNumber ==
    /\ pc = "number_select"
    /\ LET plan == PlanOfNumber(Val(request.filters.max_tickers),
                                TimeoutLimit, performance_stats)
       IN  /\ ~plan.optimal_size.nan
           /\ scan_optimization' = Some(plan)
           /\ scan_tickers' = PySliceTo(master_ticker_list, plan.optimal_size.value)
    /\ pc' = "number_selected"
    /\ UNCHANGED <<hash_salt, served, last_written, request, performance_stats,
                   scan_lock, optimization, plan_avg, fut, collected, reorders,
                   timed_out, raised, price_requests, price_data, successful_tickers,
                   ortex_world, ortex_next, ortex_log, ortex_returned, ortex_data, results, squeeze_metrics,
                   total_time, response>>

\* lines 317-319 for optimal_size NaN: the slice raises TypeError, which
\* the except clause of lines 445-450 answers
SliceRaise ==
    /\ pc = "number_select"
    /\ LET plan == PlanOfNumber(Val(request.filters.max_tickers),
                                TimeoutLimit, performance_stats)
       IN  /\ plan.optimal_size.nan
           /\ scan_optimization' = Some(plan)
    /\ raised' = Some("TypeError")
    /\ response' = Some(ErrorResponse("TypeError"))
    /\ pc' = "done"
    /\ UNCHANGED <<hash_salt, served, last_written, request, performance_stats,
                   scan_lock, optimization, plan_avg, scan_tickers, fut, collected, reorders,
                   timed_out, price_requests, price_data, successful_tickers,
                   ortex_world, ortex_next, ortex_log, ortex_returned, ortex_data, results, squeeze_metrics,
                   total_time>>

NextNumber == PlanNumber \/ SliceNumber \/ SliceRaise

SpecNumber == InitNumber /\ [][NextNumber]_vars

(***************************************************************************)
(* calculate_squeeze_score_optimized on its own: one symbol, any metrics   *)
(* a JSON payload can carry (negative, zero, beyond every cap, unset) and  *)
(* any price change.                                                       *)
(***************************************************************************)
\* largest multiple of the metric steps tried
MaxMetricStep == 5

ScoringTicker == "GME"
\* thousandths; the caps are reached at 29167, 100000, 25000 and 10000, the
\* risk thresholds are 25000, 90000 and 20000
ShortInterestInputs ==
    {None, Some(25000)} \cup {Some(k * 7300) : k \in (-1)..MaxMetricStep}
UtilizationInputs == {Some(90000)} \cup {Some(k * 26100) : k \in (-1)..MaxMetricStep}
CostToBorrowInputs == {Some(20000)} \cup {Some(k * 6700) : k \in (-1)..MaxMetricStep}
DaysToCoverInputs == {Some(k * 2900) : k \in (-1)..MaxMetricStep}
\* price_change_pct in hundredths of a percent
PriceChangeInputs == {-500, 0, 1, 2500, 50000}

InitScoring ==
    /\ hash_salt = 0
    /\ served = 0
    /\ last_written = None
    /\ pc = "scoring"
    /\ request = NoRequest
    /\ performance_stats = InitialPerformanceStats
    /\ scan_lock = "free"
    /\ optimization = NoPlan
    /\ plan_avg = None
    /\ scan_optimization = None
    /\ scan_tickers = <<ScoringTicker>>
    /\ fut = <<>>
    /\ collected = <<>>
    /\ reorders = 0
    /\ timed_out = FALSE
    /\ raised = None
    /\ price_requests = <<>>
    /\ \E pct \in PriceChangeInputs :
          price_data = [t \in {ScoringTicker} |->
                           [ticker |-> t, current_price |-> 1000,
                            price_change |-> 0, price_change_pct |-> pct,
                            volume |-> 1000, success |-> TRUE]]
    /\ successful_tickers = <<ScoringTicker>>
    /\ ortex_world = "none"
    /\ ortex_next = 0
    /\ ortex_log = <<>>
    /\ ortex_returned = EmptyMap
    /\ \E si \in ShortInterestInputs, util \in UtilizationInputs,
          ctb \in CostToBorrowInputs, dtc \in DaysToCoverInputs :
          ortex_data = [t \in {ScoringTicker} |->
                           [short_interest |-> si, utilization |-> util,
                            cost_to_borrow |-> ctb, days_to_cover |-> dtc,
                            data_quality |-> "live_ortex",
                            source_endpoints |-> <<"ortex_fast">>]]
    /\ results = <<>>
    /\ squeeze_metrics = EmptyMap
    /\ total_time = 0
    /\ response = None

\* lines 355-377 for the one symbol
ScoringCall ==
    /\ pc = "scoring"
    /\ results' = RankedResults(successful_tickers, ortex_data, price_data)
    /\ squeeze_metrics' = SqueezeMetrics(successful_tickers, ortex_data, price_data)
    /\ pc' = "scored"
    /\ UNCHANGED <<hash_salt, served, last_written, request, performance_stats,
                   scan_lock, optimization, plan_avg, scan_optimization,
                   scan_tickers, fut, collected, reorders, timed_out, raised,
                   price_requests, price_data, successful_tickers, ortex_world,
                   ortex_next, ortex_log, ortex_returned, ortex_data,
                   total_time, response>>

NextScoring == ScoringCall

SpecScoring == InitScoring /\ [][NextScoring]_vars

(***************************************************************************)
(* process_ortex_json_fast on its own: any payload of up to MaxEntries     *)
(* entries, or one that is not an object.  The call is taken in its two    *)
(* parts: the extraction loop (lines 119-131) and the estimates (lines     *)
(* 133-139); `processed` is ortex_data[ScoringTicker].                     *)
(***************************************************************************)
\* most entries of a payload tried
MaxEntries == 2

PayloadKeys ==
    { K_short_interest,
      <<"S", "I">>,
      <<"U","t","i","l","i","z","a","t","i","o","n">>,
      <<"u","t","i","l","_","p","c","t">>,
      K_cost_to_borrow,
      <<"C", "T", "B">>,
      K_days_to_cover,
      K_dtc,
      <<"b","a","s","i","s","_","u","t","i","l">>,
      <<"s","y","m","b","o","l">> }

PayloadEntries ==
    {Entry(k, TRUE, 0) : k \in PayloadKeys}
    \cup {Entry(k, TRUE, 20000) : k \in PayloadKeys}
    \cup {Entry(k, FALSE, 0) : k \in PayloadKeys}
    \cup {BoolEntry(k, TRUE) : k \in PayloadKeys}

Payloads ==
    {[is_dict |-> FALSE, entries |-> <<>>]}
    \cup UNION {{JsonObject(es) : es \in [1..n -> PayloadEntries]} : n \in 0..MaxEntries}

InitJson ==
    /\ hash_salt = 0
    /\ served = 0
    /\ last_written = None
    /\ pc = "json"
    /\ \E json_data \in Payloads :
          request = [ortex_key |-> "k", filters |-> Filters(FALSE, <<>>, None),
                     market |-> "calm", json_data |-> json_data]
    /\ performance_stats = InitialPerformanceStats
    /\ scan_lock = "free"
    /\ optimization = NoPlan
    /\ plan_avg = None
    /\ scan_optimization = None
    /\ scan_tickers = <<ScoringTicker>>
    /\ fut = <<>>
    /\ collected = <<>>
    /\ reorders = 0
    /\ timed_out = FALSE
    /\ raised = None
    /\ price_requests = <<>>
    /\ price_data = EmptyMap
    /\ successful_tickers = <<ScoringTicker>>
    /\ ortex_world = "none"
    /\ ortex_next = 0
    /\ ortex_log = <<>>
    /\ ortex_returned = EmptyMap
    /\ ortex_data = EmptyMap
    /\ results = <<>>
    /\ squeeze_metrics = EmptyMap
    /\ total_time = 0
    /\ response = None

\* lines 110-131: `processed` after the extraction loop
ExtractStep ==
    /\ pc = "json"
    /\ ortex_data' =
          [t \in {ScoringTicker} |->
              IF request.json_data.is_dict
              THEN ExtractFields(request.json_data.entries, EmptyProcessed)
              ELSE EmptyProcessed]
    /\ pc' = "extracted"
    /\ UNCHANGED <<hash_salt, served, last_written, request, performance_stats,
                   scan_lock, optimization, plan_avg, scan_optimization,
                   scan_tickers, fut, collected, reorders, timed_out, raised,
                   price_requests, price_data, successful_tickers, ortex_world,
                   ortex_next, ortex_log, ortex_returned, results,
                   squeeze_metrics, total_time, response>>

\* lines 133-141: the estimates, and the return
DeriveStep ==
    /\ pc = "extracted"
    /\ ortex_data' =
          [t \in {ScoringTicker} |-> DeriveMissing(ortex_data[ScoringTicker])]
    /\ ortex_returned' =
          [t \in {ScoringTicker} |-> Some(process_ortex_json_fast(request.json_data))]
    /\ pc' = "processed"
    /\ UNCHANGED <<hash_salt, served, last_written, request, performance_stats,
                   scan_lock, optimization, plan_avg, scan_optimization,
                   scan_tickers, fut, collected, reorders, timed_out, raised,
                   price_requests, price_data, successful_tickers, ortex_world,
                   ortex_next, ortex_log, results, squeeze_metrics, total_time,
                   response>>

NextJson == ExtractStep \/ DeriveStep

SpecJson == InitJson /\ [][NextJson]_vars

(***************************************************************************)
(* Properties.                                                             *)
(***************************************************************************)
\* the rationals a and b, with positive denominators, are equal
RatEq(a, b) == a[1] * b[2] = b[1] * a[2]

InFeedCall == pc \in {"feed", "feed_exit"}
AfterBackfill == pc \in {"score", "calibrate", "respond"}
Responded == ~IsNone(response)

\* C1: once the aggregate deadline of the price feed has expired with
\* fetches outstanding, the call is no longer inside the feed: it has
\* returned to the scan instead of waiting for those fetches.
C1_ReturnsAtDeadline ==
    (timed_out /\ Pending(fut) # {}) => ~InFeedCall

\* C2: a scan whose price feed hit its deadline raises no error: its
\* response is a success response.
C2_DeadlineGivesSuccess ==
    (timed_out /\ Responded) => Val(response).success

\* C3: once some scan has written the calibration estimate, the planner of
\* every later request reads that value.
C3_CalibrationCarriedForward ==
    (pc = "select" /\ ~IsNone(last_written))
        => RatEq(Val(plan_avg), Val(last_written))

\* C4: the step that reads the calibration estimate (Plan) and the step
\* that writes it (Calibrate) are taken with the scan lock held.
C4_AccessUnderLock ==
    [][((pc = "plan" /\ pc' = "select") \/ (pc = "calibrate" /\ pc' = "respond"))
          => scan_lock = "held"]_vars

\* C5: at every moment at most 12 price fetches are in flight.
C5_BoundedConcurrency ==
    Cardinality({i \in 1..Len(fut) : fut[i] = "running"}) <= 12

C5_Witness ==
    /\ Len(fut) > 12
    /\ Cardinality({i \in 1..Len(fut) : fut[i] = "running"}) = 12
    /\ \E i \in 13..Len(fut) : fut[i] = "running"
    /\ \E i \in 1..Len(fut) : fut[i] = "queued"

\* C6: the planner's optimal_size is between 0 and min(requested_size,
\* max_safe_batch_size), and optimal_size * avg_time_per_symbol * 1.25 is at
\* most the timeout budget of 45 s.
C6_PlannerBounds ==
    pc = "planned" =>
        LET optimal_size == optimization.optimal_size
            requested_size == Val(request.filters.max_tickers)
            avg == performance_stats.avg_ticker_time
        IN  /\ 0 <= optimal_size
            /\ optimal_size <= requested_size
            /\ optimal_size <= performance_stats.max_safe_batch_size
            /\ optimal_size * avg[1] * 5 <= 45 * avg[2] * 4

\* C7: the number of symbols a scan fetches never exceeds the optimal_size
\* the planner computed for the request and reports in optimization_info.
C7_ScanWithinOptimalSize ==
    pc \notin {"idle", "plan", "select"}
        => Len(scan_tickers) <= optimization.optimal_size

\* C8: the short-interest provider is contacted only with a credential and
\* at most 10 priced symbols, only for the first 5 priced symbols in
\* selection order, never for an unpriced symbol; with more than 10 priced
\* symbols every result is synthetic.
C8_ShortInterestFeedGated ==
    LET asked == Dedup([i \in 1..Len(ortex_log) |-> ortex_log[i][1]], {})
    IN  /\ ortex_log # <<>> =>
              /\ request.ortex_key # ""
              /\ Len(successful_tickers) <= 10
        /\ Len(asked) <= 5
        /\ Len(asked) <= Len(successful_tickers)
        /\ \A i \in 1..Len(asked) :
              /\ asked[i] = successful_tickers[i]
              /\ asked[i] \in DOMAIN price_data
        /\ Len(successful_tickers) > 10 =>
              /\ ortex_log = <<>>
              /\ \A i \in 1..Len(results) : results[i].data_quality = "smart_mock"

C8_Witness ==
    /\ pc = "respond"
    /\ request.ortex_key # ""
    /\ Len(successful_tickers) > 5
    /\ Len(successful_tickers) <= 10
    /\ Len(Dedup([i \in 1..Len(ortex_log) |-> ortex_log[i][1]], {})) = 5

\* C9: without a credential no provider endpoint is contacted, every
\* result's short-interest data is synthetic and scan_stats counts 0 live
\* results.
C9_NoCredentialNoLiveData ==
    request.ortex_key = "" =>
        /\ ortex_log = <<>>
        /\ \A t \in DOMAIN ortex_data : ortex_data[t].data_quality = "smart_mock"
        /\ \A i \in 1..Len(results) :
              /\ results[i].data_quality = "smart_mock"
              /\ results[i].ortex_data.data_quality = "smart_mock"
        /\ (Responded /\ Val(response).success) =>
              Val(response).scan_stats.live_ortex_count = 0

C9_Witness ==
    /\ request.ortex_key = ""
    /\ Responded
    /\ Val(response).success
    /\ Len(Val(response).scan_results) >= 2
    /\ Len(Val(response).scan_results) <= 10

\* C10: after the backfill step every priced symbol has metrics with all
\* four fields populated.
C10_AllFieldsAfterBackfill ==
    AfterBackfill =>
        \A i \in 1..Len(successful_tickers) :
            LET t == successful_tickers[i]
            IN  /\ t \in DOMAIN ortex_data
                /\ ~IsNone(ortex_data[t].short_interest)
                /\ ~IsNone(ortex_data[t].utilization)
                /\ ~IsNone(ortex_data[t].cost_to_borrow)
                /\ ~IsNone(ortex_data[t].days_to_cover)

\* the scan has scored and ranked its results
AfterScore == pc \in {"calibrate", "respond"}

\* the short-interest feed returned a payload for ticker t in this scan
FeedReturned(t) == t \in DOMAIN ortex_returned /\ ~IsNone(ortex_returned[t])

\* C11: every priced symbol has one result; if the short-interest feed
\* returned a payload for it in this scan, the result carries exactly that
\* record, tagged live_ortex; otherwise it carries exactly the synthetic
\* record, tagged smart_mock.  Live values and synthetic values are never
\* mixed.
C11_LiveWinsNoBlending ==
    AfterScore =>
        /\ {results[i].ticker : i \in 1..Len(results)} = Range(successful_tickers)
        /\ Len(results) = Len(successful_tickers)
        /\ \A i \in 1..Len(results) :
              LET r == results[i]
              IN  IF FeedReturned(r.ticker)
                  THEN /\ r.data_quality = "live_ortex"
                       /\ r.ortex_data = Val(ortex_returned[r.ticker])
                  ELSE /\ r.data_quality = "smart_mock"
                       /\ r.ortex_data = MockRecord(r.ticker, hash_salt)

C11_Witness ==
    /\ pc = "respond"
    /\ \E i, j \in 1..Len(results) :
          /\ FeedReturned(results[i].ticker)
          /\ IsNone(results[i].ortex_data.short_interest)
          /\ ~FeedReturned(results[j].ticker)
          /\ results[j].ticker \in DOMAIN ortex_returned

\* position of ticker t in the selected symbol list
SelectedIndex(t) == CHOOSE i \in 1..Len(scan_tickers) : scan_tickers[i] = t

\* C12: the ranked results are in non-increasing order of squeeze score, and
\* two results of equal score are in the order their symbols have in the
\* selected symbol list.
C12_RankedStable ==
    AfterScore =>
        \A i, j \in 1..Len(results) :
            i < j =>
                /\ results[i].squeeze_score >= results[j].squeeze_score
                /\ results[i].squeeze_score = results[j].squeeze_score =>
                      SelectedIndex(results[i].ticker) < SelectedIndex(results[j].ticker)

C12_Witness ==
    /\ pc = "respond"
    /\ \E i, j, k \in 1..Len(results) :
          /\ i < j /\ j < k
          /\ results[i].squeeze_score = results[j].squeeze_score
          /\ results[j].squeeze_score > results[k].squeeze_score
    /\ \E a, b \in 1..Len(results) :
          /\ a < b
          /\ SelectedIndex(results[a].ticker) > SelectedIndex(results[b].ticker)

(***************************************************************************)
(* The scan of the current request when every fetch completes in the       *)
(* order of submission: the reference the actual scan is compared with.    *)
(***************************************************************************)
RECURSIVE InOrderCollected(_, _)
InOrderCollected(tickers, market) ==
    IF tickers = <<>> THEN <<>>
    ELSE LET rest == InOrderCollected(PySliceTo(tickers, Len(tickers) - 1), market)
             t == tickers[Len(tickers)]
         IN  Collect(rest, get_single_price_fast(t, MarketReply(market, t)))

InOrderPriced == SuccessfulTickers(scan_tickers, InOrderCollected(scan_tickers, request.market))

InOrderLive ==
    LET asked == IF OrtexGateOpen(request.ortex_key, InOrderPriced)
                 THEN Range(OrtexCandidates(InOrderPriced)) ELSE {}
        Got(t) == get_fast_ortex_data(request.ortex_key, ProviderReply(ortex_world, t))
    IN  [t \in {x \in asked : ~IsNone(Got(x))} |-> Val(Got(t))]

InOrderResults ==
    RankedResults(InOrderPriced,
                  BackfillData(InOrderLive, InOrderPriced, hash_salt),
                  PriceMap(InOrderCollected(scan_tickers, request.market)))

\* C13: whatever the order in which the price fetches completed, the ranked
\* results are those of the scan in which they complete in submission order.
C13_CompletionOrderIrrelevant ==
    AfterScore => results = InOrderResults

C13_Witness ==
    /\ pc = "respond"
    /\ reorders > 0
    /\ Len(results) >= 6
    /\ Len(results) = Len(scan_tickers)
    /\ \E i \in 1..Len(results) : results[i].data_quality = "live_ortex"

\* C14: every squeeze score a scan returns is an integer between 0 and 100.
C14_ScoreInRange ==
    \A i \in 1..Len(results) :
        /\ 0 <= results[i].squeeze_score
        /\ results[i].squeeze_score <= 100

\* C15: for every input the engine scores, each of the five components is
\* non-negative, the first four are at most 35, 25, 20 and 15, momentum is 0
\* when the price change is not positive, and the total score is the floor
\* of the sum of the components.
C15_ComponentsCappedFloorTotal ==
    pc = "scored" =>
        \A t \in DOMAIN squeeze_metrics :
            squeeze_metrics[t].squeeze_type # "Error" =>
                LET c == ScoreComponents(ortex_data[t], price_data[t])
                    sum == c.short_interest + c.utilization + c.cost_to_borrow
                           + c.days_to_cover + c.momentum
                IN  /\ 0 <= c.short_interest /\ c.short_interest <= 35000000
                    /\ 0 <= c.utilization /\ c.utilization <= 25000000
                    /\ 0 <= c.cost_to_borrow /\ c.cost_to_borrow <= 20000000
                    /\ 0 <= c.days_to_cover /\ c.days_to_cover <= 15000000
                    /\ 0 <= c.momentum
                    /\ price_data[t].price_change_pct <= 0 => c.momentum = 0
                    /\ squeeze_metrics[t].squeeze_score = sum \div 1000000

\* a metrics record the engine cannot score: a field is unset (None * 1.2
\* raises TypeError at lines 261-264)
ScoringFault(m) ==
    \/ IsNone(m.short_interest) \/ IsNone(m.utilization)
    \/ IsNone(m.cost_to_borrow) \/ IsNone(m.days_to_cover)

\* C16: a symbol whose metrics cannot be scored gets score 0, tier "Error"
\* and no risk factors; every other priced symbol is scored, and the scan
\* answers with a success response that holds all of them.
C16_ScoringFaultContained ==
    (AfterScore \/ (pc = "done" /\ DOMAIN squeeze_metrics # {})) =>
        /\ {results[i].ticker : i \in 1..Len(results)} = Range(successful_tickers)
        /\ \A i \in 1..Len(results) :
              LET r == results[i]
              IN  IF ScoringFault(r.ortex_data)
                  THEN /\ r.squeeze_score = 0
                       /\ r.squeeze_type = "Error"
                       /\ r.risk_factors = <<>>
                  ELSE /\ r.squeeze_type # "Error"
                       /\ r.squeeze_score = squeeze_metrics[r.ticker].squeeze_score
                       /\ ~IsNone(squeeze_metrics[r.ticker].score_breakdown)
        /\ pc = "done" =>
              /\ Responded
              /\ Val(response).success
              /\ Val(response).scan_results = results

C16_Witness ==
    /\ pc = "done"
    /\ Responded
    /\ Val(response).success
    /\ \E i, j \in 1..Len(Val(response).scan_results) :
          /\ Val(response).scan_results[i].squeeze_type = "Error"
          /\ Val(response).scan_results[j].squeeze_score > 0
          /\ SelectedIndex(Val(response).scan_results[i].ticker)
                < SelectedIndex(Val(response).scan_results[j].ticker)

\* C17: a request has a response exactly when its handling has ended; when
\* an exception was raised while handling it the response is the failure
\* body {success: false, error: message} and nothing else (no scan_results,
\* no scan_stats); otherwise it is the success body; no response is both.
C17_FaultGivesOneFailureResponse ==
    /\ Responded <=> pc = "done"
    /\ Responded =>
          LET r == Val(response)
          IN  IF ~IsNone(raised)
              THEN /\ DOMAIN r = {"success", "error"}
                   /\ r.success = FALSE
                   /\ r.error = Val(raised)
              ELSE /\ DOMAIN r = {"success", "scan_results", "scan_stats",
                                   "optimization_info"}
                   /\ r.success = TRUE

C17_Witness ==
    /\ pc = "done"
    /\ raised = Some("TimeoutError")
    /\ Responded
    /\ ~Val(response).success
    /\ Len(fut) >= 3
    /\ served = 2

\* C18: the synthetic record of a symbol is the same in every run of the
\* process: it does not depend on the hash seed the process started with.
C18_SyntheticSameAcrossRuns ==
    AfterBackfill =>
        \A t \in DOMAIN ortex_data :
            ortex_data[t].data_quality = "smart_mock" =>
                \A seed \in 0..MaxSalt : ortex_data[t] = MockRecord(t, seed)

\* the endpoints requested for ticker t, in the order of the requests
EndpointsAsked(t) ==
    LET Of(e) == e[1] = t
        sent == SelectSeq(ortex_log, Of)
    IN  [i \in 1..Len(sent) |-> sent[i][2]]

\* C19: a call of the short-interest feed raises nothing; it requests the
\* endpoints in their fixed order, up to and including the first one that
\* answers with a JSON payload, and returns the metrics of that payload
\* alone; when no endpoint does, it has requested all of them and returns
\* absence.
C19_FirstWellFormedEndpointOrAbsence ==
    /\ ortex_log # <<>> => IsNone(raised)
    /\ \A t \in DOMAIN ortex_returned :
          LET reply == ProviderReply(ortex_world, t)
              asked == EndpointsAsked(t)
              good == {k \in 1..Len(working_endpoints) : reply[k].kind = "json"}
          IN  /\ Len(asked) <= Len(working_endpoints)
              /\ asked = SubSeq(working_endpoints, 1, Len(asked))
              /\ IF good = {}
                 THEN /\ Len(asked) = Len(working_endpoints)
                      /\ IsNone(ortex_returned[t])
                 ELSE LET first == CHOOSE k \in good : \A m \in good : k <= m
                      IN  /\ Len(asked) = first
                          /\ ortex_returned[t] =
                                Some(process_ortex_json_fast(reply[first].body))

C19_Witness ==
    /\ pc = "backfill"
    /\ \E a, b, c \in DOMAIN ortex_returned :
          /\ Len(EndpointsAsked(a)) = 2 /\ ~IsNone(ortex_returned[a])
          /\ Len(EndpointsAsked(b)) = 2 /\ IsNone(ortex_returned[b])
          /\ Len(EndpointsAsked(c)) = 1
          /\ ProviderReply(ortex_world, c)[2].kind = "json"

\* the price feed has returned its mapping to the scan
AfterFeed == pc \in {"gate", "ortex", "backfill", "score", "calibrate", "respond"}

\* C20: the mapping of the price feed holds only selected symbols; a symbol
\* is in it exactly when the price source answered its one request with a
\* chart result, and then with the complete quote; symbols whose request
\* failed or brought no chart result are left out, and no symbol is
\* requested twice.
C20_PriceMapAllOrNothing ==
    /\ \A i \in 1..Len(price_requests) : price_requests[i] <= 1
    /\ \A t \in DOMAIN price_data :
          /\ t \in Range(scan_tickers)
          /\ MarketReply(request.market, t).kind = "chart"
          /\ DOMAIN price_data[t] = {"ticker", "current_price", "price_change",
                                     "price_change_pct", "volume", "success"}
          /\ price_data[t] =
                Val(get_single_price_fast(t, MarketReply(request.market, t)))
          /\ price_data[t].ticker = t
          /\ price_data[t].success
    /\ AfterFeed =>
          /\ \A i \in 1..Len(scan_tickers) :
                /\ price_requests[i] = 1
                /\ MarketReply(request.market, scan_tickers[i]).kind # "chart"
                      => scan_tickers[i] \notin DOMAIN price_data
                /\ MarketReply(request.market, scan_tickers[i]).kind = "chart"
                      => scan_tickers[i] \in DOMAIN price_data

C20_Witness ==
    /\ pc = "gate"
    /\ Len(scan_tickers) >= 4
    /\ \E t \in Range(scan_tickers) : t \in DOMAIN price_data
    /\ \E t \in Range(scan_tickers) :
          /\ t \notin DOMAIN price_data
          /\ MarketReply(request.market, t).kind = "error"
    /\ \E t \in DOMAIN price_data : price_data[t].price_change_pct < 0

\* C21: a result for GME that carries the built-in profile (22.4, 89.2, 12.8,
\* 4.1) and a price change of 0 has score 65, the High tier and no risk
\* factors.
C21_GmeProfileScores65 ==
    \A i \in 1..Len(results) :
        (/\ results[i].ticker = "GME"
         /\ results[i].data_quality = "smart_mock"
         /\ results[i].price_change_pct = 0) =>
            /\ results[i].ortex_data.short_interest = Some(22400)
            /\ results[i].ortex_data.utilization = Some(89200)
            /\ results[i].ortex_data.cost_to_borrow = Some(12800)
            /\ results[i].ortex_data.days_to_cover = Some(4100)
            /\ results[i].squeeze_score = 65
            /\ results[i].squeeze_type = "High Squeeze Risk"
            /\ results[i].risk_factors = <<>>

C21_Witness ==
    /\ pc = "done"
    /\ Responded
    /\ Val(response).success
    /\ \E i \in 1..Len(Val(response).scan_results) :
          /\ Val(response).scan_results[i].ticker = "GME"
          /\ Val(response).scan_results[i].data_quality = "smart_mock"
          /\ Val(response).scan_results[i].price_change_pct = 0
          /\ Val(response).scan_results[i].squeeze_score = 65

\* C22: every scan request that is taken up ends, with a response written;
\* a stage that failed on the way has cost results, it has not aborted the
\* scan: the response is the success body.
C22_ScanEndsWithoutAbort ==
    (pc = "plan") ~> (pc = "done" /\ Responded /\ Val(response).success)

\* C23: a call of the planner returns optimal_size = min(requested_size,
\* floor(45 / avg_time_per_symbol * 0.8), max_safe_batch_size), estimated
\* time optimal_size * avg_time_per_symbol, timeout_risk low up to 15, medium
\* up to 25, else high, and recommended_min_score 0 up to 10, 30 up to 20,
\* else 50; the call leaves the calibration state as it was.
C23_PlannerFormula ==
    [][(pc = "planner" /\ pc' = "planned") =>
          LET requested_size == Val(request.filters.max_tickers)
              avg == performance_stats.avg_ticker_time
              safe_ceiling == (45 * avg[2] * 8) \div (avg[1] * 10)
              candidates == {requested_size, safe_ceiling,
                             performance_stats.max_safe_batch_size}
              plan == optimization'
          IN  /\ performance_stats' = performance_stats
              /\ last_written' = last_written
              /\ plan.optimal_size \in candidates
              /\ \A c \in candidates : plan.optimal_size <= c
              /\ RatEq(plan.estimated_time, <<plan.optimal_size * avg[1], avg[2]>>)
              /\ plan.timeout_risk =
                    (IF plan.optimal_size <= 15 THEN "low"
                     ELSE IF plan.optimal_size <= 25 THEN "medium" ELSE "high")
              /\ plan.recommended_min_score =
                    (IF plan.optimal_size <= 10 THEN 0
                     ELSE IF plan.optimal_size <= 20 THEN 30 ELSE 50)]_vars

C23_Witness ==
    /\ pc = "planned"
    /\ performance_stats.avg_ticker_time = <<2, 1>>
    /\ optimization.optimal_size = 18
    /\ Val(request.filters.max_tickers) > 18
    /\ performance_stats.max_safe_batch_size > 18
    /\ optimization.timeout_risk = "medium"
    /\ optimization.recommended_min_score = 30
    /\ optimization.estimated_time = <<36, 1>>

\* C24: the tier of a scored symbol is fixed by its total score: Extreme
\* from 80, High from 65 to 79, Moderate from 45 to 64, Low below 45.
C24_TierFromScore ==
    pc = "scored" =>
        \A t \in DOMAIN squeeze_metrics :
            LET m == squeeze_metrics[t]
            IN  ~ScoringFault(ortex_data[t]) =>
                    /\ m.squeeze_type = "Extreme Squeeze Risk" <=> m.squeeze_score >= 80
                    /\ m.squeeze_type = "High Squeeze Risk" <=>
                          (65 <= m.squeeze_score /\ m.squeeze_score < 80)
                    /\ m.squeeze_type = "Moderate Squeeze Risk" <=>
                          (45 <= m.squeeze_score /\ m.squeeze_score < 65)
                    /\ m.squeeze_type = "Low Risk" <=> m.squeeze_score < 45

C24_Witness ==
    /\ pc = "scored"
    /\ ~ScoringFault(ortex_data[ScoringTicker])
    /\ squeeze_metrics[ScoringTicker].squeeze_score = 80
    /\ squeeze_metrics[ScoringTicker].squeeze_type = "Extreme Squeeze Risk"

\* C25: each risk flag is present exactly when its own metric is strictly
\* above its threshold (short interest 25, utilization 90, cost to borrow
\* 20), whatever the score and the price change; no other flag is set.
C25_FlagsByStrictThresholds ==
    pc = "scored" =>
        \A t \in DOMAIN squeeze_metrics :
            ~ScoringFault(ortex_data[t]) =>
                LET flags == squeeze_metrics[t].risk_factors
                    In(f) == \E i \in 1..Len(flags) : flags[i] = f
                IN  /\ In("EXTREME_SHORT_INTEREST") <=>
                          Val(ortex_data[t].short_interest) > 25000
                    /\ In("HIGH_UTILIZATION") <=>
                          Val(ortex_data[t].utilization) > 90000
                    /\ In("HIGH_BORROWING_COSTS") <=>
                          Val(ortex_data[t].cost_to_borrow) > 20000
                    /\ \A i \in 1..Len(flags) :
                          flags[i] \in {"EXTREME_SHORT_INTEREST", "HIGH_UTILIZATION",
                                        "HIGH_BORROWING_COSTS"}
                    /\ \A i, j \in 1..Len(flags) : flags[i] = flags[j] => i = j

C25_Witness ==
    /\ pc = "scored"
    /\ ortex_data[ScoringTicker].short_interest = Some(25000)
    /\ ortex_data[ScoringTicker].utilization = Some(90000)
    /\ Val(ortex_data[ScoringTicker].cost_to_borrow) > 20000
    /\ squeeze_metrics[ScoringTicker].risk_factors = <<"HIGH_BORROWING_COSTS">>
    /\ price_data[ScoringTicker].price_change_pct > 0

\* the three fields the payload processor may estimate
EstimatedFields == {"utilization", "days_to_cover", "cost_to_borrow"}

\* the estimate of field f from short interest si (thousandths)
Heuristic(f, si) ==
    CASE f = "utilization" -> Min2((si * 35) \div 10, 95000)
      [] f = "days_to_cover" -> Max2((si * 2) \div 10, 800)
      [] OTHER -> Max2((si * 4) \div 10, 1000)

\* C26: the estimates step leaves short_interest and every field found in
\* the payload as found (a found 0 included); a field not found becomes
\* its estimate from short_interest when short_interest was found, and
\* stays unset when it was not.
C26_EstimateOnlyWhatWasNotFound ==
    [][(pc = "extracted" /\ pc' = "processed") =>
          LET found == ortex_data[ScoringTicker]
              final == ortex_data'[ScoringTicker]
          IN  /\ final.short_interest = found.short_interest
              /\ \A f \in EstimatedFields :
                    IF ~IsNone(found[f]) THEN final[f] = found[f]
                    ELSE IF ~IsNone(found.short_interest)
                         THEN final[f] = Some(Heuristic(f, Val(found.short_interest)))
                         ELSE IsNone(final[f])]_vars

\* the rules of the fuzzy key extraction, in their order
ExtractionRules ==
    << [field |-> "short_interest", fragments |-> {K_short_interest, K_si}],
       [field |-> "utilization", fragments |-> {K_utilization, K_util}],
       [field |-> "cost_to_borrow", fragments |-> {K_cost_to_borrow, K_ctb}],
       [field |-> "days_to_cover", fragments |-> {K_days_to_cover, K_dtc}] >>

\* the rules whose fragment is a substring of the lower-cased key
RulesMatching(key) ==
    {i \in 1..Len(ExtractionRules) :
        \E frag \in ExtractionRules[i].fragments : InKey(frag, Lower(key))}

\* the entries of the payload that are JSON numbers and whose first
\* matching rule is the rule of field f
NumericEntriesFor(f, json_data) ==
    {i \in 1..Len(json_data.entries) :
        LET matching == RulesMatching(json_data.entries[i].key)
        IN  /\ json_data.entries[i].json_type = "number"
            /\ matching # {}
            /\ LET first == CHOOSE r \in matching : \A m \in matching : r <= m
               IN  ExtractionRules[first].field = f}

\* C27: after the extraction loop a field is set exactly when the payload
\* is an object with a numeric entry whose first matching rule, in the order
\* short_interest, utilization, cost_to_borrow, days_to_cover, is that
\* field's, and it then holds the value of the last such entry; entries that
\* are not numbers, and payloads that are not objects, set nothing.
C27_FirstMatchingRuleOfNumericEntries ==
    pc = "extracted" =>
        \A f \in {"short_interest", "utilization", "cost_to_borrow", "days_to_cover"} :
            LET hits == IF request.json_data.is_dict
                        THEN NumericEntriesFor(f, request.json_data) ELSE {}
                processed == ortex_data[ScoringTicker]
            IN  IF hits = {} THEN IsNone(processed[f])
                ELSE LET last == CHOOSE i \in hits : \A j \in hits : j <= i
                     IN  processed[f] = Some(request.json_data.entries[last].value)

\* C28: the Calibrate step of a scan that analysed count > 0 symbols sets
\* the estimate to elapsed time / count and nothing else; with count = 0 it
\* changes nothing; and no other step of a scan, failing scans included,
\* changes the estimate, max_safe_batch_size or the timeout threshold.
C28_CalibrateOnlyWithResults ==
    [][/\ (pc = "calibrate" /\ pc' = "respond") =>
             IF Len(results) > 0
             THEN performance_stats' =
                     [performance_stats EXCEPT
                         !.avg_ticker_time = <<total_time', Len(results)>>]
             ELSE performance_stats' = performance_stats
       /\ (pc \in {"plan", "select", "submit", "feed", "feed_exit", "gate",
                    "ortex", "backfill", "score", "respond"}) =>
             performance_stats' = performance_stats]_vars

C28_Witness ==
    /\ pc = "respond"
    /\ Len(scan_tickers) >= 2
    /\ Len(results) = 0
    /\ total_time > 0
    /\ performance_stats = InitialPerformanceStats

\* C29: in one scan no price request is sent twice for a selected symbol,
\* no provider endpoint is requested twice for a symbol, and at most 10
\* provider requests are sent; a symbol whose price request failed is not
\* asked for again and has no result.
C29_NoRetries ==
    /\ Len(price_requests) = Len(fut)
    /\ \A i \in 1..Len(price_requests) : price_requests[i] \in {0, 1}
    /\ \A i, j \in 1..Len(ortex_log) : ortex_log[i] = ortex_log[j] => i = j
    /\ Len(ortex_log) <= 10
    /\ AfterScore =>
          \A i \in 1..Len(scan_tickers) :
              MarketReply(request.market, scan_tickers[i]).kind # "chart" =>
                  /\ price_requests[i] = 1
                  /\ \A j \in 1..Len(results) : results[j].ticker # scan_tickers[i]

C29_Witness ==
    /\ pc = "respond"
    /\ Len(ortex_log) = 10
    /\ \E i \in 1..Len(scan_tickers) :
          MarketReply(request.market, scan_tickers[i]).kind = "error"
    /\ \A i \in 1..Len(price_requests) : price_requests[i] = 1
    /\ \A j \in 1..Len(results) : results[j].data_quality = "smart_mock"

\* the priced symbols the feed returned no record for
Backfilled == {t \in Range(successful_tickers) : ~FeedReturned(t)}

\* C30: once the backfill has run, every priced symbol the feed gave no
\* record for has a synthetic record with all four metrics present, and
\* for a symbol of the profile table the four metrics are the table's,
\* whatever category the symbol is listed in and whatever the hash seed.
C30_SyntheticRecordComplete ==
    (AfterBackfill /\ IsNone(raised)) =>
        \A t \in Backfilled :
            /\ t \in DOMAIN ortex_data
            /\ ortex_data[t].data_quality = "smart_mock"
            /\ ~IsNone(ortex_data[t].short_interest)
            /\ ~IsNone(ortex_data[t].utilization)
            /\ ~IsNone(ortex_data[t].cost_to_borrow)
            /\ ~IsNone(ortex_data[t].days_to_cover)
            /\ t \in DOMAIN squeeze_profiles =>
                  /\ ortex_data[t].short_interest = Some(squeeze_profiles[t].si)
                  /\ ortex_data[t].utilization = Some(squeeze_profiles[t].util)
                  /\ ortex_data[t].cost_to_borrow = Some(squeeze_profiles[t].ctb)
                  /\ ortex_data[t].days_to_cover = Some(squeeze_profiles[t].dtc)
                  /\ \A u \in DOMAIN squeeze_profiles, seed \in 0..MaxSalt :
                        LET r == generate_smart_mock_data(<<t, u>>, seed)[u]
                        IN  /\ r.short_interest = Some(squeeze_profiles[u].si)
                            /\ r.utilization = Some(squeeze_profiles[u].util)
                            /\ r.cost_to_borrow = Some(squeeze_profiles[u].ctb)
                            /\ r.days_to_cover = Some(squeeze_profiles[u].dtc)

C30_Witness ==
    /\ pc = "score"
    /\ hash_salt > 0
    /\ \E t, v \in Backfilled :
          /\ t \in DOMAIN squeeze_profiles
          /\ v \notin DOMAIN squeeze_profiles
          /\ Contains(ticker_universe["top_meme_stocks"], t)
          /\ Contains(ticker_universe["top_meme_stocks"], v)
          /\ ortex_data[t] # MockRecordGenerated(t, hash_salt)
          /\ ortex_data[v] = MockRecordGenerated(v, hash_salt)

\* C31: with the ceiling of 20 the planner never returns timeout_risk
\* "high" nor recommended_min_score 50, whatever number the request
\* carries and whatever the calibration.
C31_HighAndFiftyUnreachable ==
    performance_stats.max_safe_batch_size = DefaultMaxSafeBatchSize =>
        /\ optimization.timeout_risk # "high"
        /\ optimization.recommended_min_score # 50
        /\ ~IsNone(scan_optimization) =>
              /\ Val(scan_optimization).timeout_risk # "high"
              /\ Val(scan_optimization).recommended_min_score # 50

\* the request names categories and the selection has been made
CategoryScan ==
    /\ pc \notin {"idle", "plan", "select"}
    /\ served > 0
    /\ "filters" \in DOMAIN request
    /\ request.filters.nonempty
    /\ request.filters.categories # <<>>

\* the named categories the universe has
KnownCategories(categories) == Range(categories) \cap DOMAIN ticker_universe

\* C32: with a category filter the selected symbols are distinct and each
\* is listed in a named category the universe has; when no named category
\* exists nothing is selected, the master list is not used, and the
\* request is answered with success and an empty result list.
C32_CategoryFilterSelection ==
    CategoryScan =>
        LET known == KnownCategories(request.filters.categories)
        IN  /\ \A i, j \in 1..Len(scan_tickers) :
                  scan_tickers[i] = scan_tickers[j] => i = j
            /\ \A i \in 1..Len(scan_tickers) :
                  \E c \in known : Contains(ticker_universe[c], scan_tickers[i])
            /\ known = {} =>
                  /\ scan_tickers = <<>>
                  /\ IsNone(raised)
                  /\ pc = "done" =>
                        /\ Responded
                        /\ Val(response).success
                        /\ Val(response).scan_results = <<>>

C32_Witness ==
    /\ CategoryScan
    /\ KnownCategories(request.filters.categories) = {}
    /\ pc = "done"
    /\ Val(response).success
    /\ Val(response).scan_results = <<>>
    /\ Val(response).scan_stats.total_tickers_scanned = 0
    /\ Val(request.filters.max_tickers) > 0

====
